---- MODULE Spec2Model ----
(***************************************************************************)
(* A model of the node-organisation and rendering pipeline of pls:        *)
(* sort-field cleaning and comparison, the multi-pass stable sort, the    *)
(* collapse resolver, the table width computation, the Kitty image        *)
(* encoder and the per-path driver loop.                                   *)
(***************************************************************************)
EXTENDS Integers, Sequences, FiniteSets, TLC

VARIABLES
  \* SortField::clean: the raw field list, the cleaned list, the position
  cl_input, cl_out, cl_pc,
  \* SortField::compare: the field, the two nodes, the returned ordering
  cmp_field, cmp_a, cmp_b, cmp_ord,
  \* the sort of Pls::list: args.sort_bases, the nodes as read, the nodes
  \* vector, the index of the next field to sort by, the position
  so_bases, so_input, so_nodes, so_pass, so_pc,
  \* Pls::resolve_collapses: the collapse rule that the matched specs give
  \* each node, the sorted nodes, the resulting forest, the position
  co_rule, co_nodes, co_forest, co_pc,
  \* gfx::kitty: the pixel buffer (its length and the seed of its bytes), the
  \* image size, the cell height of the window, the text around the image,
  \* the output of render_image, the output of strip_image, the position
  ki_len, ki_seed, ki_size, ki_cell, ki_prefix, ki_suffix, ki_out,
  ki_stripped, ki_pc,
  \* output::Table: the rows, args.details, args.header, the widths that
  \* max_widths returned, the printed lines, the position
  tb_entries, tb_details, tb_header, tb_widths, tb_lines, tb_pc,
  \* Pls::run: the arguments, the number of paths the loop has taken, what
  \* was written to standard output, the position
  rn_args, rn_idx, rn_out, rn_pc,
  \* Pls::get_contents: the path on disk, the arguments, the returned
  \* result, the verdicts of passes_filters on the nodes, the position
  gc_path, gc_args, gc_out, gc_passed, gc_pc,
  \* Node::icon: the specs of the configuration, its icon table, the
  \* per-type default icon names, the node, its matched specs, the icon,
  \* the position
  ic_specs, ic_icons, ic_typ_icons, ic_node, ic_matched, ic_icon, ic_pc,
  \* resolve_collapses step by step: the nodes, the collapse rule of each,
  \* the roots still to convert, child_map, the frames of the calls of
  \* make_tree_node in progress, the forest so far, the keys of the groups
  \* taken out of child_map, the position
  tr_nodes, tr_rule, tr_roots, tr_map, tr_stack, tr_forest, tr_visits, tr_pc

clean_vars == <<cl_input, cl_out, cl_pc>>
cmp_vars == <<cmp_field, cmp_a, cmp_b, cmp_ord>>
sort_vars == <<so_bases, so_input, so_nodes, so_pass, so_pc>>
collapse_vars == <<co_rule, co_nodes, co_forest, co_pc>>
kitty_vars ==
  <<ki_len, ki_seed, ki_size, ki_cell, ki_prefix, ki_suffix, ki_out,
    ki_stripped, ki_pc>>
table_vars ==
  <<tb_entries, tb_details, tb_header, tb_widths, tb_lines, tb_pc>>
run_vars == <<rn_args, rn_idx, rn_out, rn_pc>>
contents_vars == <<gc_path, gc_args, gc_out, gc_passed, gc_pc>>
icon_vars ==
  <<ic_specs, ic_icons, ic_typ_icons, ic_node, ic_matched, ic_icon, ic_pc>>
tree_vars ==
  <<tr_nodes, tr_rule, tr_roots, tr_map, tr_stack, tr_forest, tr_visits,
    tr_pc>>
vars ==
  <<clean_vars, cmp_vars, sort_vars, collapse_vars, kitty_vars, table_vars,
    run_vars, contents_vars, icon_vars, tree_vars>>

\* The variables outside each component.
not_clean == <<cmp_vars, sort_vars, collapse_vars, kitty_vars, table_vars,
    run_vars,
    contents_vars, icon_vars, tree_vars>>
not_compare == <<clean_vars, sort_vars, collapse_vars, kitty_vars, table_vars,
    run_vars,
    contents_vars, icon_vars, tree_vars>>
not_sort == <<clean_vars, cmp_vars, collapse_vars, kitty_vars, table_vars,
    run_vars,
    contents_vars, icon_vars, tree_vars>>
not_collapse == <<clean_vars, cmp_vars, sort_vars, kitty_vars, table_vars,
    run_vars,
    contents_vars, icon_vars, tree_vars>>
not_kitty == <<clean_vars, cmp_vars, sort_vars, collapse_vars, table_vars,
    run_vars,
    contents_vars, icon_vars, tree_vars>>
not_table == <<clean_vars, cmp_vars, sort_vars, collapse_vars, kitty_vars,
    run_vars,
    contents_vars, icon_vars, tree_vars>>
not_run == <<clean_vars, cmp_vars, sort_vars, collapse_vars, kitty_vars,
    table_vars,
    contents_vars, icon_vars, tree_vars>>
not_contents == <<clean_vars, cmp_vars, sort_vars, collapse_vars, kitty_vars,
    table_vars, run_vars, icon_vars, tree_vars>>
not_icon == <<clean_vars, cmp_vars, sort_vars, collapse_vars, kitty_vars,
    table_vars, run_vars, contents_vars, tree_vars>>
not_tree == <<clean_vars, cmp_vars, sort_vars, collapse_vars, kitty_vars,
    table_vars, run_vars, contents_vars, icon_vars>>

\* The state of a component that a specification does not exercise.
IdleClean == cl_input = <<>> /\ cl_out = <<>> /\ cl_pc = "idle"
IdleCompare == cmp_field = "None" /\ cmp_a = 0 /\ cmp_b = 0 /\ cmp_ord = "idle"
IdleSort ==
  so_bases = <<>> /\ so_input = <<>> /\ so_nodes = <<>> /\ so_pass = 0
  /\ so_pc = "idle"
IdleCollapse ==
  co_rule = <<>> /\ co_nodes = <<>> /\ co_forest = <<>> /\ co_pc = "idle"
IdleKitty ==
  /\ ki_len = 0 /\ ki_seed = 0 /\ ki_size = 0 /\ ki_cell = 0
  /\ ki_prefix = <<>> /\ ki_suffix = <<>> /\ ki_out = <<>>
  /\ ki_stripped = <<>> /\ ki_pc = "idle"
IdleTable ==
  /\ tb_entries = <<>> /\ tb_details = <<>> /\ tb_header = FALSE
  /\ tb_widths = <<>> /\ tb_lines = <<>> /\ tb_pc = "idle"
IdleRun == rn_args = <<>> /\ rn_idx = 0 /\ rn_out = <<>> /\ rn_pc = "idle"
IdleContents ==
  /\ gc_path = <<>> /\ gc_args = <<>> /\ gc_out = <<>> /\ gc_passed = <<>>
  /\ gc_pc = "idle"
IdleTree ==
  /\ tr_nodes = <<>> /\ tr_rule = <<>> /\ tr_roots = <<>> /\ tr_map = <<>>
  /\ tr_stack = <<>> /\ tr_forest = <<>> /\ tr_visits = <<>> /\ tr_pc = "idle"
IdleIcon ==
  /\ ic_specs = <<>> /\ ic_icons = <<>> /\ ic_typ_icons = <<>> /\ ic_node = 0
  /\ ic_matched = <<>> /\ ic_icon = <<>> /\ ic_pc = "idle"

\* Every component but the named one is idle.
IdleBut(component) ==
  /\ component # "clean" => IdleClean
  /\ component # "compare" => IdleCompare
  /\ component # "sort" => IdleSort
  /\ component # "collapse" => IdleCollapse
  /\ component # "kitty" => IdleKitty
  /\ component # "table" => IdleTable
  /\ component # "run" => IdleRun
  /\ component # "contents" => IdleContents
  /\ component # "icon" => IdleIcon
  /\ component # "tree" => IdleTree

(***************************************************************************)
(* Generic helpers                                                         *)
(***************************************************************************)
Range(s) == {s[i] : i \in 1..Len(s)}

SetMax(S) == CHOOSE x \in S : \A y \in S : y <= x
SetMin(S) == CHOOSE x \in S : \A y \in S : x <= y

\* All sequences over S of length at most n.
SeqsUpTo(S, n) == UNION {[1..k -> S] : k \in 0..n}

(***************************************************************************)
(* enum SortField (src/enums/sort_field.rs)                                *)
(***************************************************************************)
\* The variants without a trailing underscore, in declaration order.
NaturalFields ==
  <<"Dev", "Ino", "Nlink", "Typ", "Cat", "User", "Uid", "Group", "Gid",
    "Size", "Blocks", "Btime", "Ctime", "Mtime", "Atime", "Name", "Cname",
    "Ext">>

\* The variants declared under "Reversed sort by the field".
ReversedFields ==
  <<"Inode_", "Nlinks_", "Typ_", "Cat_", "User_", "Uid_", "Group_", "Gid_",
    "Size_", "Blocks_", "Btime_", "Ctime_", "Mtime_", "Atime_", "Name_",
    "Cname_", "Ext_">>

SortField == Range(NaturalFields) \cup Range(ReversedFields) \cup {"None"}

\* The value name of each variant, as a sequence of characters: the name
\* given by #[clap(name = ...)] where present, else the lower-cased variant
\* name that the ValueEnum derive produces.
possible_value_name(v) ==
  CASE v = "Dev" -> <<"d", "e", "v">>
    [] v = "Ino" -> <<"i", "n", "o">>
    [] v = "Nlink" -> <<"n", "l", "i", "n", "k">>
    [] v = "Typ" -> <<"t", "y", "p">>
    [] v = "Cat" -> <<"c", "a", "t">>
    [] v = "User" -> <<"u", "s", "e", "r">>
    [] v = "Uid" -> <<"u", "i", "d">>
    [] v = "Group" -> <<"g", "r", "o", "u", "p">>
    [] v = "Gid" -> <<"g", "i", "d">>
    [] v = "Size" -> <<"s", "i", "z", "e">>
    [] v = "Blocks" -> <<"b", "l", "o", "c", "k", "s">>
    [] v = "Btime" -> <<"b", "t", "i", "m", "e">>
    [] v = "Ctime" -> <<"c", "t", "i", "m", "e">>
    [] v = "Mtime" -> <<"m", "t", "i", "m", "e">>
    [] v = "Atime" -> <<"a", "t", "i", "m", "e">>
    [] v = "Name" -> <<"n", "a", "m", "e">>
    [] v = "Cname" -> <<"c", "n", "a", "m", "e">>
    [] v = "Ext" -> <<"e", "x", "t">>
    [] v = "Inode_" -> <<"i", "n", "o", "d", "e", "_">>
    [] v = "Nlinks_" -> <<"n", "l", "i", "n", "k", "s", "_">>
    [] v = "Typ_" -> <<"t", "y", "p", "_">>
    [] v = "Cat_" -> <<"c", "a", "t", "_">>
    [] v = "User_" -> <<"u", "s", "e", "r", "_">>
    [] v = "Uid_" -> <<"u", "i", "d", "_">>
    [] v = "Group_" -> <<"g", "r", "o", "u", "p", "_">>
    [] v = "Gid_" -> <<"g", "i", "d", "_">>
    [] v = "Size_" -> <<"s", "i", "z", "e", "_">>
    [] v = "Blocks_" -> <<"b", "l", "o", "c", "k", "s", "_">>
    [] v = "Btime_" -> <<"b", "t", "i", "m", "e", "_">>
    [] v = "Ctime_" -> <<"c", "t", "i", "m", "e", "_">>
    [] v = "Mtime_" -> <<"m", "t", "i", "m", "e", "_">>
    [] v = "Atime_" -> <<"a", "t", "i", "m", "e", "_">>
    [] v = "Name_" -> <<"n", "a", "m", "e", "_">>
    [] v = "Cname_" -> <<"c", "n", "a", "m", "e", "_">>
    [] v = "Ext_" -> <<"e", "x", "t", "_">>
    [] v = "None" -> <<"n", "o", "n", "e">>

\* impl Display for SortField: the value name of the variant.
to_string(v) == possible_value_name(v)

\* impl From<&str> for SortField: ValueEnum::from_str looks the name up among
\* the value names of all variants; an unknown name becomes SortField::None.
\* (The names are lower case already, so ignoring case changes nothing.)
from_str(name) ==
  IF \E v \in SortField : possible_value_name(v) = name
    THEN CHOOSE v \in SortField : possible_value_name(v) = name
    ELSE "None"

\* str::ends_with('_')
ends_with_underscore(name) == Len(name) > 0 /\ name[Len(name)] = "_"

\* str::trim_end_matches('_')
RECURSIVE trim_end_underscores(_)
trim_end_underscores(name) ==
  IF ends_with_underscore(name)
    THEN trim_end_underscores(SubSeq(name, 1, Len(name) - 1))
    ELSE name

\* SortField::simplify: <<basis, is_reverse>>.
simplify(field) ==
  LET name == to_string(field) IN
    IF ends_with_underscore(name)
      THEN <<from_str(trim_end_underscores(name)), TRUE>>
      ELSE <<field, FALSE>>

(***************************************************************************)
(* SortField::clean                                                        *)
(***************************************************************************)
\* The for loop of clean: None clears the accumulator, any other field is
\* pushed.
RECURSIVE clean_loop(_, _)
clean_loop(input, cleaned) ==
  IF input = <<>> THEN cleaned
  ELSE clean_loop(Tail(input),
                  IF Head(input) = "None" THEN <<>>
                  ELSE Append(cleaned, Head(input)))

\* A loop that only skips None instead of clearing what came before it.
RECURSIVE clean_loop_SkipNone(_, _)
clean_loop_SkipNone(input, cleaned) ==
  IF input = <<>> THEN cleaned
  ELSE clean_loop_SkipNone(Tail(input),
                           IF Head(input) = "None" THEN cleaned
                           ELSE Append(cleaned, Head(input)))

\* cleaned.retain(|&x| seen.insert(x)): keep an element iff it was not seen.
RECURSIVE retain_unseen(_, _, _)
retain_unseen(cleaned, seen, kept) ==
  IF cleaned = <<>> THEN kept
  ELSE LET x == Head(cleaned) IN
    IF x \in seen
      THEN retain_unseen(Tail(cleaned), seen, kept)
      ELSE retain_unseen(Tail(cleaned), seen \cup {x}, Append(kept, x))

clean_SkipNone(input) == retain_unseen(clean_loop_SkipNone(input, <<>>), {}, <<>>)

clean(input) == retain_unseen(clean_loop(input, <<>>), {}, <<>>)

(***************************************************************************)
(* Specification SpecClean: clean applied to bounded field lists           *)
(***************************************************************************)
\* Longest raw field list given to clean.
MaxCleanLen == 5

\* The fields the raw lists are drawn from (they include the fields of the
\* tests test_none_clears and test_removes_duplicates).
CleanFieldPool == {"None", "Gid", "Mtime", "User", "Size_"}

InitClean ==
  /\ cl_input \in SeqsUpTo(CleanFieldPool, MaxCleanLen)
  /\ cl_out = <<>>
  /\ cl_pc = "start"
  /\ IdleBut("clean")

\* A call SortField::clean(&cl_input).
Clean ==
  /\ cl_pc = "start"
  /\ cl_out' = clean(cl_input)
  /\ cl_pc' = "done"
  /\ UNCHANGED <<cl_input, not_clean>>

NextClean == Clean

SpecClean == InitClean /\ [][NextClean]_vars

\* The fields after the last None of the list (all of it without a None).
AfterLastNone(s) ==
  LET nones == {i \in 1..Len(s) : s[i] = "None"}
      k == IF nones = {} THEN 0 ELSE SetMax(nones)
  IN SubSeq(s, k + 1, Len(s))

\* s is the subsequence of t made of the first occurrence of each element.
IsFirstOccurrences(s, t) ==
  LET firsts == {i \in 1..Len(t) : \A j \in 1..(i - 1) : t[j] # t[i]} IN
    /\ Len(s) = Cardinality(firsts)
    /\ \A k \in 1..Len(s) :
         \E i \in firsts :
           /\ s[k] = t[i]
           /\ Cardinality({j \in firsts : j < i}) = k - 1

\* C4: clean(input) is the part of the input after its last None, each
\* distinct field kept once at its first occurrence there; so the result has
\* no None and no duplicate.
C4_CleanIsDedupedSuffix ==
  cl_pc = "done" =>
    /\ IsFirstOccurrences(cl_out, AfterLastNone(cl_input))
    /\ "None" \notin Range(cl_out)
    /\ \A i, j \in 1..Len(cl_out) : i # j => cl_out[i] # cl_out[j]

\* A list with a None after some fields and a duplicate after the None has
\* been cleaned.
C4_Witness ==
  /\ cl_pc = "done"
  /\ \E i, j, k \in 1..Len(cl_input) :
       /\ i < j /\ j < k
       /\ cl_input[i] = "None" /\ cl_input[1] # "None"
       /\ cl_input[j] = cl_input[k] /\ cl_input[j] # "None"
       /\ \A m \in (i + 1)..Len(cl_input) : cl_input[m] # "None"
  /\ Len(cl_out) < Len(cl_input) - 2

(***************************************************************************)
(* Nodes as the comparator sees them                                       *)
(***************************************************************************)
\* Option<T> is a sequence of length at most one: <<>> is None, <<x>> Some(x).
NoneOpt == <<>>
Some(x) == <<x>>

\* enum Typ in declaration order; #[derive(Ord)] orders by position.
TypOrder ==
  <<"Dir", "Symlink", "Fifo", "Socket", "BlockDevice", "CharDevice", "File",
    "Unknown">>

TypRank(t) == CHOOSE i \in 1..Len(TypOrder) : TypOrder[i] = t

\* Typ::cat: the category of a type, directories before files.
cat(t) == IF t = "Dir" THEN 1 ELSE 2

\* The nodes the comparator and the sort are exercised on.  Names are byte
\* strings (sequences of byte values).  Node 2 is on a file system without
\* birth times, node 4 has no readable metadata, nodes 1 and 3 tie on size,
\* ctime and mtime.
NodePool ==
  << \* 1: "b.txt"
     [name |-> <<98, 46, 116, 120, 116>>, path |-> <<98, 46, 116, 120, 116>>, typ |-> "File",
      meta |-> Some([dev |-> 1, ino |-> 12, nlink |-> 1, uid |-> 1000,
                     gid |-> 100, size |-> 10, blocks |-> 8,
                     Btime |-> Some(5), Ctime |-> Some(7),
                     Mtime |-> Some(7), Atime |-> Some(9)])],
     \* 2: "a.txt"
     [name |-> <<97, 46, 116, 120, 116>>, path |-> <<97, 46, 116, 120, 116>>, typ |-> "File",
      meta |-> Some([dev |-> 1, ino |-> 11, nlink |-> 2, uid |-> 0,
                     gid |-> 0, size |-> 20, blocks |-> 8,
                     Btime |-> NoneOpt, Ctime |-> Some(8),
                     Mtime |-> Some(6), Atime |-> Some(9)])],
     \* 3: ".Env"
     [name |-> <<46, 69, 110, 118>>, path |-> <<46, 69, 110, 118>>, typ |-> "Dir",
      meta |-> Some([dev |-> 2, ino |-> 10, nlink |-> 3, uid |-> 1000,
                     gid |-> 0, size |-> 10, blocks |-> 0,
                     Btime |-> Some(4), Ctime |-> Some(7),
                     Mtime |-> Some(7), Atime |-> Some(3)])],
     \* 4: "_c.RS"
     [name |-> <<95, 99, 46, 82, 83>>, path |-> <<95, 99, 46, 82, 83>>, typ |-> "Symlink",
      meta |-> NoneOpt],
     \* 5: "a.RS"
     [name |-> <<97, 46, 82, 83>>, path |-> <<97, 46, 82, 83>>, typ |-> "File",
      meta |-> Some([dev |-> 1, ino |-> 13, nlink |-> 1, uid |-> 0,
                     gid |-> 100, size |-> 30, blocks |-> 16,
                     Btime |-> Some(6), Ctime |-> Some(6),
                     Mtime |-> Some(2), Atime |-> Some(9)])],
     \* 6: the file named by the byte 0xFF, which is not UTF-8: Node::new
     \* names the node U+FFFD
     [name |-> <<239, 191, 189>>, path |-> <<255>>, typ |-> "File",
      meta |-> Some([dev |-> 1, ino |-> 14, nlink |-> 1, uid |-> 1000,
                     gid |-> 100, size |-> 10, blocks |-> 8,
                     Btime |-> Some(5), Ctime |-> Some(7),
                     Mtime |-> Some(7), Atime |-> Some(9)])],
     \* 7: the file named by the byte 0xFE: its node is named U+FFFD too
     [name |-> <<239, 191, 189>>, path |-> <<254>>, typ |-> "File",
      meta |-> Some([dev |-> 1, ino |-> 15, nlink |-> 1, uid |-> 0,
                     gid |-> 0, size |-> 20, blocks |-> 8,
                     Btime |-> Some(6), Ctime |-> Some(8),
                     Mtime |-> Some(6), Atime |-> Some(9)])] >>

NodeIds == 1..Len(NodePool)

\* The user database: uid 0 is "root", uid 1000 is "alice".
user_name(uid) ==
  IF uid = 0 THEN <<114, 111, 111, 116>> ELSE <<97, 108, 105, 99, 101>>

\* The group database: gid 0 is "wheel", gid 100 is "staff".
group_name(gid) ==
  IF gid = 0 THEN <<119, 104, 101, 101, 108>> ELSE <<115, 116, 97, 102, 102>>

\* Detail::meta_ok: the metadata of the node if it could be read.
meta_ok(n) == n.meta

\* Detail::user_val / group_val: the owner's name, None without metadata.
user_val(n) ==
  IF meta_ok(n) = NoneOpt THEN NoneOpt ELSE Some(user_name(meta_ok(n)[1].uid))

group_val(n) ==
  IF meta_ok(n) = NoneOpt THEN NoneOpt ELSE Some(group_name(meta_ok(n)[1].gid))

\* Detail::time_val: the timestamp of the field, None when the node has no
\* metadata or the platform does not expose that timestamp.
time_val(n, field) ==
  IF meta_ok(n) = NoneOpt THEN NoneOpt
  ELSE CASE field = "Btime" -> meta_ok(n)[1].Btime
         [] field = "Ctime" -> meta_ok(n)[1].Ctime
         [] field = "Mtime" -> meta_ok(n)[1].Mtime
         [] field = "Atime" -> meta_ok(n)[1].Atime

\* char::to_lowercase on a byte.
lower(c) == IF c >= 65 /\ c <= 90 THEN c + 32 ELSE c

\* char::is_alphanumeric on a byte.
is_alphanumeric(c) ==
  \/ (c >= 48 /\ c <= 57) \/ (c >= 65 /\ c <= 90) \/ (c >= 97 /\ c <= 122)

\* str::trim_start_matches(|c| !c.is_alphanumeric())
RECURSIVE trim_start_symbols(_)
trim_start_symbols(str) ==
  IF str # <<>> /\ ~is_alphanumeric(Head(str))
    THEN trim_start_symbols(Tail(str))
    ELSE str

\* Name::cname: the name in lower case with leading symbols stripped.
cname(n) == trim_start_symbols([i \in 1..Len(n.name) |-> lower(n.name[i])])

\* Name::ext: Path::extension of the name, "" when there is none: the part
\* after the last dot, unless the only dot is the leading one.
ext(n) ==
  LET dots == {i \in 2..Len(n.name) : n.name[i] = 46} IN
    IF dots = {} THEN <<>>
    ELSE SubSeq(n.name, SetMax(dots) + 1, Len(n.name))

(***************************************************************************)
(* std::cmp::Ordering and the orderings of the compared values             *)
(***************************************************************************)
Ordering == {"Less", "Equal", "Greater"}

\* Ordering::reverse
reverse(ord) ==
  CASE ord = "Less" -> "Greater"
    [] ord = "Greater" -> "Less"
    [] OTHER -> ord

\* Ord for integers.
cmp_int(x, y) == IF x < y THEN "Less" ELSE IF x > y THEN "Greater" ELSE "Equal"

\* Ord for String: byte-wise lexicographic.
RECURSIVE cmp_str(_, _)
cmp_str(x, y) ==
  IF x = <<>> THEN (IF y = <<>> THEN "Equal" ELSE "Less")
  ELSE IF y = <<>> THEN "Greater"
  ELSE IF Head(x) # Head(y) THEN cmp_int(Head(x), Head(y))
  ELSE cmp_str(Tail(x), Tail(y))

\* Ord for Option<String>: None before Some.
cmp_opt_str(x, y) ==
  IF x = NoneOpt THEN (IF y = NoneOpt THEN "Equal" ELSE "Less")
  ELSE IF y = NoneOpt THEN "Greater"
  ELSE cmp_str(x[1], y[1])

(***************************************************************************)
(* SortField::compare                                                      *)
(***************************************************************************)
\* "NoVerdict" is the None of Option<Ordering>; "Abort" is a panic.
NoMetaFields == {"Name", "Cname", "Ext", "Typ", "Cat", "User", "Group"}
MetaFields == {"Dev", "Ino", "Nlink", "Uid", "Gid", "Size", "Blocks"}
TimeFields == {"Btime", "Ctime", "Mtime", "Atime"}

compare_no_meta(self, a, b) ==
  CASE self = "Name" -> cmp_str(a.name, b.name)
    [] self = "Cname" -> cmp_str(cname(a), cname(b))
    [] self = "Ext" -> cmp_str(ext(a), ext(b))
    [] self = "Typ" -> cmp_int(TypRank(a.typ), TypRank(b.typ))
    [] self = "Cat" -> cmp_int(cat(a.typ), cat(b.typ))
    [] self = "User" -> cmp_opt_str(user_val(a), user_val(b))
    [] self = "Group" -> cmp_opt_str(group_val(a), group_val(b))
    [] OTHER -> "NoVerdict"

compare_meta(self, a, b) ==
  IF meta_ok(a) # NoneOpt /\ meta_ok(b) # NoneOpt
    THEN LET ma == meta_ok(a)[1]
             mb == meta_ok(b)[1]
         IN CASE self = "Dev" -> cmp_int(ma.dev, mb.dev)
              [] self = "Ino" -> cmp_int(ma.ino, mb.ino)
              [] self = "Nlink" -> cmp_int(ma.nlink, mb.nlink)
              [] self = "Uid" -> cmp_int(ma.uid, mb.uid)
              [] self = "Gid" -> cmp_int(ma.gid, mb.gid)
              [] self = "Size" -> cmp_int(ma.size, mb.size)
              [] self = "Blocks" -> cmp_int(ma.blocks, mb.blocks)
              [] OTHER -> "NoVerdict"
    ELSE "NoVerdict"

\* Any field that is not a timestamp reaches unreachable!().
compare_time(self, a, b) ==
  IF self \notin TimeFields THEN "Abort"
  ELSE LET ta == time_val(a, self)
           tb == time_val(b, self)
       IN IF ta # NoneOpt /\ tb # NoneOpt
            THEN cmp_int(ta[1], tb[1])
            ELSE "NoVerdict"

\* Option::or_else: the second stage runs only if the first gave no verdict.
or_else(first, second) == IF first = "NoVerdict" THEN second ELSE first

\* Option::unwrap_or(Ordering::Equal)
unwrap_or_equal(v) == IF v = "NoVerdict" THEN "Equal" ELSE v

\* The fallback chain of compare on the basis.
compare_basis(basis, a, b) ==
  unwrap_or_equal(
    or_else(or_else(compare_no_meta(basis, a, b), compare_meta(basis, a, b)),
            compare_time(basis, a, b)))

\* if is_reverse { ord.reverse() } else { ord }
reverse_if(is_reverse, ord) == IF is_reverse THEN reverse(ord) ELSE ord

\* compare on the <<basis, is_reverse>> that simplify returned.
compare_simplified(simplified, a, b) ==
  reverse_if(simplified[2], compare_basis(simplified[1], a, b))

compare(self, a, b) == compare_simplified(simplify(self), a, b)

(***************************************************************************)
(* Specification SpecCompare: one call of compare on any field and pair    *)
(***************************************************************************)
InitCompare ==
  /\ cmp_field \in SortField
  /\ cmp_a \in NodeIds
  /\ cmp_b \in NodeIds
  /\ cmp_ord = "pending"
  /\ IdleBut("compare")

\* A call cmp_field.compare(a, b, owner_man).
Compare ==
  /\ cmp_ord = "pending"
  /\ cmp_ord' = compare(cmp_field, NodePool[cmp_a], NodePool[cmp_b])
  /\ UNCHANGED <<cmp_field, cmp_a, cmp_b, not_compare>>

NextCompare == Compare

SpecCompare == InitCompare /\ [][NextCompare]_vars

\* C2: every natural field F has a reversed variant that simplify maps to
\* (F, true) and whose comparison is the reverse of F's; simplify maps no
\* reversed variant to another field or to None.
C2_ReversedVariantReverses ==
  cmp_ord # "pending" =>
    /\ cmp_field \in Range(NaturalFields) =>
         \E r \in Range(ReversedFields) :
           /\ simplify(r) = <<cmp_field, TRUE>>
           /\ compare(r, NodePool[cmp_a], NodePool[cmp_b]) = reverse(cmp_ord)
    /\ cmp_field \in Range(ReversedFields) =>
         /\ simplify(cmp_field)[1] \in Range(NaturalFields)
         /\ simplify(cmp_field)[2]
         /\ cmp_ord \in Ordering
         /\ cmp_ord = reverse(compare(simplify(cmp_field)[1],
                                      NodePool[cmp_a], NodePool[cmp_b]))

\* C3: compare returns an ordering and never aborts; a metadata field with a
\* node without readable metadata, or a timestamp that a node does not
\* expose, compares Equal.
C3_CompareNeverAborts ==
  cmp_ord # "pending" =>
    /\ cmp_ord \in Ordering
    /\ LET a == NodePool[cmp_a]
           b == NodePool[cmp_b]
           basis == simplify(cmp_field)[1]
       IN /\ (basis \in MetaFields
                /\ (meta_ok(a) = NoneOpt \/ meta_ok(b) = NoneOpt))
               => cmp_ord = "Equal"
          /\ (basis \in TimeFields
                /\ (time_val(a, basis) = NoneOpt \/ time_val(b, basis) = NoneOpt))
               => cmp_ord = "Equal"

(***************************************************************************)
(* The sort of Pls::list                                                   *)
(***************************************************************************)
\* A result that a panic may cut short: ok is FALSE after a panic.
Ok(v) == [ok |-> TRUE, v |-> v]
Panicked == [ok |-> FALSE, v |-> <<>>]

\* slice::sort_by on a short slice is an insertion sort.  Depending on the
\* standard library it inserts each element into the sorted prefix from its
\* tail, or each element into the sorted suffix from its head; both move an
\* element only past elements that compare strictly Greater (or Less), so
\* both are stable.  The elements are node ids.
SortAlgos == {"insert_tail", "insert_head"}

\* The result with one more element behind or in front, unless it panicked.
then_append(result, x) == IF result.ok THEN Ok(Append(result.v, x)) ELSE Panicked
then_prepend(x, result) == IF result.ok THEN Ok(<<x>> \o result.v) ELSE Panicked

\* Insert x into the sorted prefix, scanning from its last element: x moves
\* in front of the last element while it compares Less than it.
RECURSIVE insert_tail(_, _, _)
RECURSIVE insert_tail_on(_, _, _, _)
insert_tail_on(ord, field, prefix, x) ==
  IF ord = "Abort" THEN Panicked
  ELSE IF ord = "Less"
    THEN then_append(insert_tail(field, SubSeq(prefix, 1, Len(prefix) - 1), x),
                     prefix[Len(prefix)])
    ELSE Ok(Append(prefix, x))

insert_tail(field, prefix, x) ==
  IF prefix = <<>> THEN Ok(<<x>>)
  ELSE insert_tail_on(compare(field, NodePool[x], NodePool[prefix[Len(prefix)]]),
                      field, prefix, x)

\* Insert x into the sorted suffix, scanning from its first element: the
\* first element stays in front of x while it compares Less than x.
RECURSIVE insert_head(_, _, _)
RECURSIVE insert_head_on(_, _, _, _)
insert_head_on(ord, field, x, suffix) ==
  IF ord = "Abort" THEN Panicked
  ELSE IF ord = "Less"
    THEN then_prepend(Head(suffix), insert_head(field, x, Tail(suffix)))
    ELSE Ok(<<x>> \o suffix)

insert_head(field, x, suffix) ==
  IF suffix = <<>> THEN Ok(<<x>>)
  ELSE insert_head_on(compare(field, NodePool[Head(suffix)], NodePool[x]),
                      field, x, suffix)

RECURSIVE sort_tail(_, _, _)
RECURSIVE sort_tail_on(_, _, _)
sort_tail_on(inserted, field, rest) ==
  IF inserted.ok THEN sort_tail(field, inserted.v, Tail(rest)) ELSE Panicked

sort_tail(field, done, rest) ==
  IF rest = <<>> THEN Ok(done)
  ELSE sort_tail_on(insert_tail(field, done, Head(rest)), field, rest)

RECURSIVE sort_head(_, _, _)
RECURSIVE sort_head_on(_, _, _)
sort_head_on(inserted, field, rest) ==
  IF inserted.ok
    THEN sort_head(field, SubSeq(rest, 1, Len(rest) - 1), inserted.v)
    ELSE Panicked

sort_head(field, rest, done) ==
  IF rest = <<>> THEN Ok(done)
  ELSE sort_head_on(insert_head(field, rest[Len(rest)], done), field, rest)

\* nodes.sort_by(|a, b| field.compare(a, b, &mut owner_man))
sort_by(nodes, field, algo) ==
  IF algo = "insert_tail" THEN sort_tail(field, <<>>, nodes)
  ELSE sort_head(field, nodes, <<>>)

(***************************************************************************)
(* Specification SpecSort: the sort passes of Pls::list                    *)
(***************************************************************************)
\* Longest sort-field chain and longest node list.
MaxChainLen == 2
MaxSortNodes == 3

\* The fields the chains are drawn from.
SortFieldPool ==
  {"Name", "Cname_", "Typ", "Size", "Size_", "Btime", "Mtime", "Nlinks_", "None"}

\* The entries of a directory have distinct names: lists without repetition.
DistinctSeqs(S, n) ==
  {q \in SeqsUpTo(S, n) : \A i, j \in 1..Len(q) : i # j => q[i] # q[j]}

InitSort ==
  /\ so_bases \in {clean(c) : c \in SeqsUpTo(SortFieldPool, MaxChainLen)}
  /\ so_input \in DistinctSeqs(NodeIds, MaxSortNodes)
  /\ so_nodes = so_input
  /\ so_pass = Len(so_bases)
  /\ so_pc = "sorting"
  /\ IdleBut("sort")

\* One iteration of sort_bases.iter().rev().for_each: a full sort by the
\* field at so_pass; a panic in the comparator ends the run.
SortPass ==
  /\ so_pc = "sorting"
  /\ Len(so_nodes) > 1
  /\ so_pass >= 1
  /\ \E algo \in SortAlgos :
       LET r == sort_by(so_nodes, so_bases[so_pass], algo) IN
         IF r.ok
           THEN so_nodes' = r.v /\ so_pass' = so_pass - 1 /\ so_pc' = so_pc
           ELSE so_nodes' = so_nodes /\ so_pass' = so_pass /\ so_pc' = "panicked"
  /\ UNCHANGED <<so_bases, so_input, not_sort>>

\* The sort is over: a single node or none is not sorted at all.
SortDone ==
  /\ so_pc = "sorting"
  /\ (Len(so_nodes) <= 1 \/ so_pass = 0)
  /\ so_pc' = "sorted"
  /\ UNCHANGED <<so_bases, so_input, so_nodes, so_pass, not_sort>>

NextSort == SortPass \/ SortDone

SpecSort == InitSort /\ [][NextSort]_vars

\* The first field of the chain on which x and y do not compare Equal, 0 if
\* they compare Equal on all of them.
FirstDeciding(chain, x, y) ==
  LET deciding == {k \in 1..Len(chain) :
                     compare(chain[k], NodePool[x], NodePool[y]) # "Equal"}
  IN IF deciding = {} THEN 0 ELSE SetMin(deciding)

PositionIn(q, x) == CHOOSE i \in 1..Len(q) : q[i] = x

\* C1: after the passes the nodes are in lexicographic order of the chain:
\* x before y implies x is Less than y at the first field that separates
\* them, and nodes Equal on every field keep their input order.
C1_PassesGiveLexicographicOrder ==
  /\ so_pc # "panicked"
  /\ so_pc = "sorted" =>
       /\ Range(so_nodes) = Range(so_input) /\ Len(so_nodes) = Len(so_input)
       /\ \A i, j \in 1..Len(so_nodes) :
            i < j =>
              LET x == so_nodes[i]
                  y == so_nodes[j]
                  k == FirstDeciding(so_bases, x, y)
              IN IF k = 0
                   THEN PositionIn(so_input, x) < PositionIn(so_input, y)
                   ELSE compare(so_bases[k], NodePool[x], NodePool[y]) = "Less"

\* compare by the field returns an ordering on the nodes of the list, the
\* ordering of a pair is the reverse of that of the swapped pair, and Equal
\* is transitive.
ConsistentOn(field, ids) ==
  /\ \A x, y \in ids :
       /\ compare(field, NodePool[x], NodePool[y]) \in Ordering
       /\ compare(field, NodePool[x], NodePool[y])
            = reverse(compare(field, NodePool[y], NodePool[x]))
  /\ \A x, y, z \in ids :
       ( /\ compare(field, NodePool[x], NodePool[y]) = "Equal"
         /\ compare(field, NodePool[y], NodePool[z]) = "Equal" )
       => compare(field, NodePool[x], NodePool[z]) = "Equal"

\* C18: every field of the chain that the list was sorted by is a consistent
\* ordering on the nodes of the list, and the pass that is due gives the
\* same result whichever way the sort algorithm calls the comparator.
C18_CompareIsConsistent ==
  /\ (so_pc # "sorting" /\ Len(so_input) > 1) =>
       \A k \in 1..Len(so_bases) : ConsistentOn(so_bases[k], Range(so_input))
  /\ (so_pc = "sorting" /\ so_pass >= 1 /\ Len(so_nodes) > 1) =>
       \A algo, other \in SortAlgos :
         sort_by(so_nodes, so_bases[so_pass], algo)
           = sort_by(so_nodes, so_bases[so_pass], other)


(***************************************************************************)
(* Pls::resolve_collapses                                                  *)
(***************************************************************************)
\* A node in the resolver: the id of the entry in NodePool, its appearance,
\* its collapse key and its owned children.
TreeNode(id, appearance, collapse_name, children) ==
  [id |-> id, appearance |-> appearance, collapse_name |-> collapse_name,
   children |-> children]

\* Node::new: a node appears Normal, has no key and no children.
new_node(id) == TreeNode(id, "Normal", NoneOpt, <<>>)

\* enum Collapse: Name(target) or Ext(extension).
CollapseName(target) == [kind |-> "Name", arg |-> target]
CollapseExt(extension) == [kind |-> "Ext", arg |-> extension]

\* Path::with_extension: the name up to its last dot (all of it when the only
\* dot is the leading one or there is none), then "." and the extension.
with_extension(name, extension) ==
  LET dots == {i \in 2..Len(name) : name[i] = 46}
      stem == IF dots = {} THEN name ELSE SubSeq(name, 1, SetMax(dots) - 1)
  IN IF extension = <<>> THEN stem ELSE stem \o <<46>> \o extension

\* Node::find_collapse: the key is the literal name of a Name rule, the
\* node's own name with the extension replaced for an Ext rule.
find_collapse(node, rule) ==
  [node EXCEPT !.collapse_name =
     IF rule = NoneOpt THEN NoneOpt
     ELSE IF rule[1].kind = "Name" THEN Some(rule[1].arg)
     ELSE Some(with_extension(NodePool[node.id].name, rule[1].arg))]

\* Node::tree_child: the node appears as a child.
tree_child(node) == [node EXCEPT !.appearance = "TreeChild"]

\* Node::tree_parent: the node owns the children and, if there are any,
\* appears as a parent.
tree_parent(node, children) ==
  [node EXCEPT !.children = children,
               !.appearance = IF children # <<>> THEN "TreeParent" ELSE @]

\* A push that puts the child in front of the group.
map_push_Front(child_map, key, child) ==
  [k \in DOMAIN child_map \cup {key} |->
     IF k = key
       THEN <<child>> \o (IF key \in DOMAIN child_map THEN child_map[key] ELSE <<>>)
       ELSE child_map[k]]

\* child_map.entry(key).or_insert(vec![]).push(child)
map_push(child_map, key, child) ==
  [k \in DOMAIN child_map \cup {key} |->
     IF k = key
       THEN Append(IF key \in DOMAIN child_map THEN child_map[key] ELSE <<>>, child)
       ELSE child_map[k]]

\* A read of the entry that leaves it in the map.
map_remove_Keep(child_map, key) == child_map

\* The map after child_map.remove_entry(key).
map_remove(child_map, key) ==
  [k \in DOMAIN child_map \ {key} |-> child_map[k]]

\* Pls::make_tree_node: <<the node with its subtree, the map that is left>>.
\* The entry under the node's name is taken out of the map before its nodes
\* are converted in turn, each on the map the previous one left.
RECURSIVE make_tree_node(_, _)
RECURSIVE make_tree_children(_, _, _)
make_tree_children(child_nodes, children, child_map) ==
  IF child_nodes = <<>> THEN <<children, child_map>>
  ELSE LET r == make_tree_node(Head(child_nodes), child_map)
       IN make_tree_children(Tail(child_nodes), Append(children, r[1]), r[2])

\* make_tree_node pushing the nodes of the group as they are, without
\* converting them in turn.
make_tree_node_Flat(node, child_map) ==
  LET name == NodePool[node.id].name IN
    IF name \in DOMAIN child_map
      THEN <<tree_parent(node, child_map[name]), map_remove(child_map, name)>>
      ELSE <<tree_parent(node, <<>>), child_map>>

\* make_tree_node that hands the map back as it got it: the group is out of
\* the map only while the node's own subtree is made.
make_tree_node_Keep(node, child_map) ==
  LET name == NodePool[node.id].name IN
    IF name \in DOMAIN child_map
      THEN LET r == make_tree_children(child_map[name], <<>>,
                                       map_remove(child_map, name))
           IN <<tree_parent(node, r[1]), child_map>>
      ELSE <<tree_parent(node, <<>>), child_map>>

make_tree_node(node, child_map) ==
  LET name == NodePool[node.id].name IN
    IF name \in DOMAIN child_map
      THEN LET r == make_tree_children(child_map[name], <<>>,
                                       map_remove(child_map, name))
           IN <<tree_parent(node, r[1]), r[2]>>
      ELSE <<tree_parent(node, <<>>), child_map>>

\* The for_each of resolve_collapses: <<roots, child_map>>.
RECURSIVE split_roots(_, _, _)
split_roots(nodes, roots, child_map) ==
  IF nodes = <<>> THEN <<roots, child_map>>
  ELSE LET node == Head(nodes) IN
    IF node.collapse_name # NoneOpt
      THEN split_roots(Tail(nodes), roots,
                       map_push(child_map, node.collapse_name[1], tree_child(node)))
      ELSE split_roots(Tail(nodes), Append(roots, node), child_map)

\* A split that files the keyed nodes without marking them as children.
RECURSIVE split_roots_Unmarked(_, _, _)
split_roots_Unmarked(nodes, roots, child_map) ==
  IF nodes = <<>> THEN <<roots, child_map>>
  ELSE LET node == Head(nodes) IN
    IF node.collapse_name # NoneOpt
      THEN split_roots_Unmarked(Tail(nodes), roots,
                                map_push(child_map, node.collapse_name[1], node))
      ELSE split_roots_Unmarked(Tail(nodes), Append(roots, node), child_map)

\* The final map over the roots, each on the map the previous one left.
RECURSIVE make_forest(_, _, _)
make_forest(roots, forest, child_map) ==
  IF roots = <<>> THEN forest
  ELSE LET r == make_tree_node(Head(roots), child_map)
       IN make_forest(Tail(roots), Append(forest, r[1]), r[2])

EmptyMap == [k \in {} |-> <<>>]

resolve_collapses_Unmarked(nodes, rule) ==
  LET keyed == [i \in 1..Len(nodes) |-> find_collapse(nodes[i], rule[nodes[i].id])]
      split == split_roots_Unmarked(keyed, <<>>, EmptyMap)
  IN make_forest(split[1], <<>>, split[2])

\* A resolver in which a node whose target is the name of no node falls
\* back to being a root.
resolve_collapses_OrphansToRoots(nodes, rule) ==
  LET keyed == [i \in 1..Len(nodes) |-> find_collapse(nodes[i], rule[nodes[i].id])]
      names == {NodePool[nodes[i].id].name : i \in 1..Len(nodes)}
      fallen == [i \in 1..Len(nodes) |->
                   IF keyed[i].collapse_name # NoneOpt
                      /\ keyed[i].collapse_name[1] \notin names
                     THEN [keyed[i] EXCEPT !.collapse_name = NoneOpt]
                     ELSE keyed[i]]
      split == split_roots(fallen, <<>>, EmptyMap)
  IN make_forest(split[1], <<>>, split[2])

resolve_collapses(nodes, rule) ==
  LET keyed == [i \in 1..Len(nodes) |-> find_collapse(nodes[i], rule[nodes[i].id])]
      split == split_roots(keyed, <<>>, EmptyMap)
  IN make_forest(split[1], <<>>, split[2])

(***************************************************************************)
(* Specification SpecCollapse: resolve_collapses on bounded node lists     *)
(***************************************************************************)
\* Longest node list given to the resolver.
MaxCollapseNodes == 3

\* The collapse rules a spec may carry: none, a sibling's name ("b.txt",
\* "a.txt", U+FFFD), a name no entry has ("zz"), or the extension "txt".
RulePool ==
  {NoneOpt,
   Some(CollapseName(<<98, 46, 116, 120, 116>>)),
   Some(CollapseName(<<97, 46, 116, 120, 116>>)),
   Some(CollapseName(<<239, 191, 189>>)),
   Some(CollapseName(<<122, 122>>)),
   Some(CollapseExt(<<116, 120, 116>>))}

\* The nodes given to the resolver: "b.txt", "a.txt", "a.RS" and the two
\* nodes that are both named U+FFFD.
CollapseIds == {1, 2, 5, 6, 7}

InitCollapse ==
  /\ \E ids \in DistinctSeqs(CollapseIds, MaxCollapseNodes) :
       /\ co_nodes = [i \in 1..Len(ids) |-> new_node(ids[i])]
       /\ \E rule \in [Range(ids) -> RulePool] :
            co_rule = [id \in NodeIds |->
                         IF id \in Range(ids) THEN rule[id] ELSE NoneOpt]
  /\ co_forest = <<>>
  /\ co_pc = "sorted"
  /\ IdleBut("collapse")

\* nodes = self.resolve_collapses(nodes)
ResolveCollapses ==
  /\ co_pc = "sorted"
  /\ co_forest' = resolve_collapses(co_nodes, co_rule)
  /\ co_pc' = "resolved"
  /\ UNCHANGED <<co_rule, co_nodes, not_collapse>>

NextCollapse == ResolveCollapses

SpecCollapse == InitCollapse /\ [][NextCollapse]_vars

\* The key that find_collapse gives input node i.
KeyOf(i) == find_collapse(co_nodes[i], co_rule[co_nodes[i].id]).collapse_name

NameOf(node) == NodePool[node.id].name

\* The input nodes whose key is the name of root r of the forest.
KeyedTo(r) == {i \in 1..Len(co_nodes) : KeyOf(i) = Some(NameOf(r))}

ChildWithId(r, id) == {c \in 1..Len(r.children) : r.children[c].id = id}

\* C5 as stated: every node keyed to a top-level root is a child of that root
\* and appears as TreeChild, the root appears as TreeParent, and a root
\* without children keeps its appearance.
C5_Original ==
  co_pc = "resolved" =>
    \A t \in 1..Len(co_forest) :
      LET r == co_forest[t] IN
        /\ \A i \in KeyedTo(r) :
             \E c \in ChildWithId(r, co_nodes[i].id) :
               r.children[c].appearance = "TreeChild"
        /\ KeyedTo(r) # {} => r.appearance = "TreeParent"
        /\ r.children = <<>> => r.appearance = "Normal"

\* No other input node has the name of the node.
SoleName(node) ==
  \A i \in 1..Len(co_nodes) :
    NameOf(co_nodes[i]) = NameOf(node) => co_nodes[i].id = node.id

\* C5 (amended): every node keyed to a top-level root whose name no other
\* node has is a child of that root; it appears as TreeChild unless it
\* gained children of its own, in which case it appears as TreeParent; the
\* root appears as TreeParent; a root without children keeps its appearance.
C5_ChildrenOfRoots ==
  co_pc = "resolved" =>
    \A t \in 1..Len(co_forest) :
      LET r == co_forest[t] IN
        /\ SoleName(r) =>
             /\ \A i \in KeyedTo(r) :
                  \E c \in ChildWithId(r, co_nodes[i].id) :
                    r.children[c].appearance =
                      IF r.children[c].children = <<>> THEN "TreeChild"
                      ELSE "TreeParent"
             /\ KeyedTo(r) # {} => r.appearance = "TreeParent"
        /\ r.children = <<>> => r.appearance = "Normal"

\* A root with a child that has no children, beside a root without children.
C5_Witness ==
  /\ co_pc = "resolved"
  /\ \E t, u \in 1..Len(co_forest) :
       /\ KeyedTo(co_forest[t]) # {}
       /\ co_forest[t].appearance = "TreeParent"
       /\ co_forest[t].children[1].appearance = "TreeChild"
       /\ co_forest[u].children = <<>>
       /\ co_forest[u].appearance = "Normal"


\* Every node of the forest, at any depth.
RECURSIVE AllNodes(_)
AllNodes(forest) ==
  UNION {{forest[t]} \cup AllNodes(forest[t].children) : t \in 1..Len(forest)}

\* The ids of a sequence of nodes, in order.
IdsOf(nodes) == [i \in 1..Len(nodes) |-> nodes[i].id]

\* The input positions of the nodes without a key.
Unkeyed == {i \in 1..Len(co_nodes) : KeyOf(i) = NoneOpt}

\* The nodes of the forest that are input node i.
InForest(i) == {n \in AllNodes(co_forest) : n.id = co_nodes[i].id}

RECURSIVE Rooted(_, _)
Rooted(i, fuel) ==
  \/ KeyOf(i) = NoneOpt
  \/ /\ fuel > 0
     /\ \E j \in 1..Len(co_nodes) :
          /\ j # i
          /\ KeyOf(i) = Some(NameOf(co_nodes[j]))
          /\ Rooted(j, fuel - 1)

\* C16 as stated: a node with a key that is the name of no top-level root is
\* nowhere in the forest.
C16_Original ==
  co_pc = "resolved" =>
    \A i \in 1..Len(co_nodes) :
      ( /\ KeyOf(i) # NoneOpt
        /\ \A t \in 1..Len(co_forest) : KeyOf(i) # Some(NameOf(co_forest[t])) ) =>
        InForest(i) = {}

\* C16 (amended): a node is nowhere in the forest, neither at top level nor
\* as a child at any depth, if following the keys from it reaches no node
\* without a key: its target is the name of no node, or of itself only, or
\* the keys run in a cycle or end in such a node.  A node with a key is
\* never at top level.
C16_OrphansDropped ==
  co_pc = "resolved" =>
    \A i \in 1..Len(co_nodes) :
      /\ ~Rooted(i, Len(co_nodes)) => InForest(i) = {}
      /\ KeyOf(i) # NoneOpt => co_nodes[i].id \notin Range(IdsOf(co_forest))

\* A root beside a node keyed to a name that no node has and a node keyed
\* to its own name: the forest is the root alone.
C16_Witness ==
  /\ co_pc = "resolved"
  /\ Len(co_forest) = 1
  /\ co_forest[1].children = <<>>
  /\ \E i, j \in 1..Len(co_nodes) :
       /\ KeyOf(i) = Some(NameOf(co_nodes[i]))
       /\ KeyOf(j) # NoneOpt
       /\ \A k \in 1..Len(co_nodes) : KeyOf(j) # Some(NameOf(co_nodes[k]))
       /\ InForest(i) = {} /\ InForest(j) = {}

\* The position of the node in the input.
InputPos(id) == CHOOSE i \in 1..Len(co_nodes) : co_nodes[i].id = id

\* The ids are in the order in which the input has them.
InInputOrder(ids) ==
  \A c, d \in 1..Len(ids) : c < d => InputPos(ids[c]) < InputPos(ids[d])

\* C17: the top-level roots are exactly the input nodes without a key, in
\* their input order, and the children of any one parent, at any depth, are
\* in their input order.
C17_OrderPreserved ==
  co_pc = "resolved" =>
    /\ IdsOf(co_forest) =
         IdsOf(SelectSeq([i \in 1..Len(co_nodes) |->
                            [id |-> co_nodes[i].id, key |-> KeyOf(i)]],
                         LAMBDA n : n.key = NoneOpt))
    /\ \A n \in AllNodes(co_forest) : InInputOrder(IdsOf(n.children))

\* A parent that is not first in the input, with two children.
C17_Witness ==
  /\ co_pc = "resolved"
  /\ \E t \in 1..Len(co_forest) :
       /\ Len(co_forest[t].children) = 2
       /\ InputPos(co_forest[t].id) > 1
       /\ InputPos(co_forest[t].children[1].id) < InputPos(co_forest[t].children[2].id)

\* The ids of the forest, each node before its children.
RECURSIVE ForestIds(_)
ForestIds(forest) ==
  IF forest = <<>> THEN <<>>
  ELSE <<Head(forest).id>> \o ForestIds(Head(forest).children)
         \o ForestIds(Tail(forest))

\* C20: no input node is in the forest more than once, counting the top
\* level and all descendants, and every node of the forest is an input node.
C20_NoNodeTwice ==
  co_pc = "resolved" =>
    LET ids == ForestIds(co_forest) IN
      /\ \A p, q \in 1..Len(ids) : p # q => ids[p] # ids[q]
      /\ Range(ids) \subseteq Range(IdsOf(co_nodes))

\* Two nodes share a collapse target, and the target is the name of a root
\* and of a nested child: the group went to one of the two only.
C20_Witness ==
  /\ co_pc = "resolved"
  /\ \E i, j \in 1..Len(co_nodes) :
       /\ i # j
       /\ KeyOf(i) # NoneOpt
       /\ KeyOf(i) = KeyOf(j)
       /\ \E t \in 1..Len(co_forest) :
            /\ KeyOf(i) = Some(NameOf(co_forest[t]))
            /\ \E n \in AllNodes(co_forest) \ Range(co_forest) :
                 NameOf(n) = NameOf(co_forest[t])
       /\ Cardinality(InForest(i)) = 1
       /\ Cardinality(InForest(j)) = 1
  /\ Len(ForestIds(co_forest)) = Len(co_nodes)

(***************************************************************************)
(* Specification SpecTree: resolve_collapses call by call                  *)
(***************************************************************************)
\* Longest node list given to the resolver, and the deepest nesting of
\* calls of make_tree_node that is followed.
MaxTreeNodes == 3
MaxCalls == 5

\* The nodes: "b.txt", "a.txt" and the two nodes that are both named U+FFFD.
TreeIds == {1, 2, 6, 7}

\* The collapse rules: none, or the name of one of the nodes.
TreeRulePool ==
  {NoneOpt,
   Some(CollapseName(<<98, 46, 116, 120, 116>>)),
   Some(CollapseName(<<97, 46, 116, 120, 116>>)),
   Some(CollapseName(<<239, 191, 189>>))}

\* The frame of a call of make_tree_node: the node, the nodes of its group
\* that the for loop has yet to take, and the children vector.
Frame(node, child_nodes, children) ==
  [node |-> node, child_nodes |-> child_nodes, children |-> children]

\* The start of make_tree_node: <<the frame, the map that is left, the keys
\* taken so far>>.  remove_entry takes the group of the node's name, if
\* there is one, out of the map.
enter(node, child_map, visits) ==
  LET name == NodePool[node.id].name IN
    IF name \in DOMAIN child_map
      THEN <<Frame(node, child_map[name], <<>>), map_remove(child_map, name),
             Append(visits, name)>>
      ELSE <<Frame(node, <<>>, <<>>), child_map, visits>>

InitTree ==
  /\ \E ids \in DistinctSeqs(TreeIds, MaxTreeNodes) :
       /\ tr_nodes = [i \in 1..Len(ids) |-> new_node(ids[i])]
       /\ \E rule \in [Range(ids) -> TreeRulePool] :
            tr_rule = [id \in NodeIds |->
                         IF id \in Range(ids) THEN rule[id] ELSE NoneOpt]
  /\ tr_roots = <<>>
  /\ tr_map = EmptyMap
  /\ tr_stack = <<>>
  /\ tr_forest = <<>>
  /\ tr_visits = <<>>
  /\ tr_pc = "new"
  /\ IdleBut("tree")

\* find_collapse on every node, then the for_each that fills roots and
\* child_map.
SplitRoots ==
  /\ tr_pc = "new"
  /\ \E split \in
         {split_roots([i \in 1..Len(tr_nodes) |->
                         find_collapse(tr_nodes[i], tr_rule[tr_nodes[i].id])],
                      <<>>, EmptyMap)} :
       /\ tr_roots' = split[1]
       /\ tr_map' = split[2]
  /\ tr_pc' = "mapping"
  /\ UNCHANGED <<tr_nodes, tr_rule, tr_stack, tr_forest, tr_visits, not_tree>>

\* roots.into_iter().map(..): make_tree_node is called on the next root.
CallRoot ==
  /\ tr_pc = "mapping"
  /\ tr_stack = <<>>
  /\ tr_roots # <<>>
  /\ \E call \in {enter(Head(tr_roots), tr_map, tr_visits)} :
       /\ tr_stack' = <<call[1]>>
       /\ tr_map' = call[2]
       /\ tr_visits' = call[3]
  /\ tr_roots' = Tail(tr_roots)
  /\ UNCHANGED <<tr_nodes, tr_rule, tr_forest, tr_pc, not_tree>>

\* for child_node in child_nodes: make_tree_node is called on the next node
\* of the group.
CallChild ==
  /\ tr_pc = "mapping"
  /\ tr_stack # <<>>
  /\ tr_stack[Len(tr_stack)].child_nodes # <<>>
  /\ Len(tr_stack) < MaxCalls
  /\ \E call \in {enter(Head(tr_stack[Len(tr_stack)].child_nodes), tr_map,
                        tr_visits)} :
       /\ tr_stack' =
            Append([tr_stack EXCEPT ![Len(tr_stack)].child_nodes = Tail(@)],
                   call[1])
       /\ tr_map' = call[2]
       /\ tr_visits' = call[3]
  /\ UNCHANGED <<tr_nodes, tr_rule, tr_roots, tr_forest, tr_pc, not_tree>>

\* node.tree_parent(children): the call returns, to the push of the caller
\* or to the collect of resolve_collapses.
Return ==
  /\ tr_pc = "mapping"
  /\ tr_stack # <<>>
  /\ tr_stack[Len(tr_stack)].child_nodes = <<>>
  /\ \E made \in {tree_parent(tr_stack[Len(tr_stack)].node,
                              tr_stack[Len(tr_stack)].children)} :
       IF Len(tr_stack) = 1
         THEN /\ tr_forest' = Append(tr_forest, made)
              /\ tr_stack' = <<>>
         ELSE /\ tr_forest' = tr_forest
              /\ tr_stack' =
                   [SubSeq(tr_stack, 1, Len(tr_stack) - 1)
                      EXCEPT ![Len(tr_stack) - 1].children = Append(@, made)]
  /\ UNCHANGED <<tr_nodes, tr_rule, tr_roots, tr_map, tr_visits, tr_pc, not_tree>>

\* .collect(): every root is converted and resolve_collapses returns.
Collect ==
  /\ tr_pc = "mapping"
  /\ tr_stack = <<>>
  /\ tr_roots = <<>>
  /\ tr_pc' = "done"
  /\ UNCHANGED <<tr_nodes, tr_rule, tr_roots, tr_map, tr_stack, tr_forest,
                 tr_visits, not_tree>>

NextTree == SplitRoots \/ CallRoot \/ CallChild \/ Return \/ Collect

\* The code runs on without a pause: a step that can be taken is taken.
SpecTree == InitTree /\ [][NextTree]_vars /\ WF_vars(NextTree)

\* The key that find_collapse gives the node at position i.
TreeKeyOf(i) == find_collapse(tr_nodes[i], tr_rule[tr_nodes[i].id]).collapse_name

\* No group is taken out of child_map twice.
EachGroupOnce ==
  \A p, q \in 1..Len(tr_visits) : p # q => tr_visits[p] # tr_visits[q]

\* C19: resolve_collapses returns, whatever the keys are, and make_tree_node
\* takes each group of child_map at most once.
C19_ResolveTerminates == <>(tr_pc = "done") /\ []EachGroupOnce

\* resolve_collapses has returned on a list with a node keyed to its own
\* name and two nodes keyed to each other's names.
C19_Witness ==
  /\ tr_pc = "done"
  /\ \E i, j, k \in 1..Len(tr_nodes) :
       /\ TreeKeyOf(i) = Some(NodePool[tr_nodes[i].id].name)
       /\ j # k
       /\ TreeKeyOf(j) = Some(NodePool[tr_nodes[k].id].name)
       /\ TreeKeyOf(k) = Some(NodePool[tr_nodes[j].id].name)

(***************************************************************************)
(* gfx::kitty: render_image and strip_image                                *)
(***************************************************************************)
\* Text is a sequence of characters; "ESC" stands for \x1b and "LF" for \n.
CHUNK_SIZE == 4096

\* The alphabet of BASE64_STANDARD.
Base64Alphabet ==
  <<"A", "B", "C", "D", "E", "F", "G", "H", "I", "J", "K", "L", "M", "N", "O",
    "P", "Q", "R", "S", "T", "U", "V", "W", "X", "Y", "Z", "a", "b", "c", "d",
    "e", "f", "g", "h", "i", "j", "k", "l", "m", "n", "o", "p", "q", "r", "s",
    "t", "u", "v", "w", "x", "y", "z", "0", "1", "2", "3", "4", "5", "6", "7",
    "8", "9", "+", "/">>

\* BASE64_STANDARD.encode: every three bytes give four characters of six
\* bits each; a last group of one or two bytes is padded with "=".
base64_encode(data) ==
  LET n == Len(data)
      byte(i) == IF i <= n THEN data[i] ELSE 0
      char(j) ==
        LET g == (j - 1) \div 4
            pos == (j - 1) % 4
            b0 == byte(3 * g + 1)
            b1 == byte(3 * g + 2)
            b2 == byte(3 * g + 3)
        IN CASE pos = 0 -> Base64Alphabet[(b0 \div 4) + 1]
             [] pos = 1 -> Base64Alphabet[((b0 % 4) * 16 + (b1 \div 16)) + 1]
             [] pos = 2 -> IF 3 * g + 2 > n THEN "="
                           ELSE Base64Alphabet[((b1 % 16) * 4 + (b2 \div 64)) + 1]
             [] pos = 3 -> IF 3 * g + 3 > n THEN "="
                           ELSE Base64Alphabet[(b2 % 64) + 1]
  IN [j \in 1..(4 * ((n + 2) \div 3)) |-> char(j)]

\* The decimal digits of a number, as format!("{n}") writes them.
Digits == <<"0", "1", "2", "3", "4", "5", "6", "7", "8", "9">>

RECURSIVE to_decimal(_)
to_decimal(n) ==
  IF n < 10 THEN <<Digits[n + 1]>>
  ELSE Append(to_decimal(n \div 10), Digits[(n % 10) + 1])

\* iter.by_ref().take(CHUNK_SIZE): the next chunk and what is left.
take_chunk(chars) ==
  SubSeq(chars, 1, IF Len(chars) < CHUNK_SIZE THEN Len(chars) ELSE CHUNK_SIZE)

after_chunk(chars) == SubSeq(chars, CHUNK_SIZE + 1, Len(chars))

\* The while loop of render_image: one "\x1b_Gm=1;{chunk}\x1b\\" for each
\* further chunk, as long as characters are left.
RECURSIVE more_chunks(_)
more_chunks(chars) ==
  IF chars = <<>> THEN <<>>
  ELSE <<"ESC", "_", "G", "m", "=", "1", ";">> \o take_chunk(chars)
         \o <<"ESC", "\\">> \o more_chunks(after_chunk(chars))

\* The first control sequence: all parameters and the first chunk.
first_sequence(size, off_y, first_chunk) ==
  <<"ESC", "_", "G", "f", "=", "3", "2", ",", "t", "=", "d", ",", "a", "=",
    "T", ",", "C", "=", "1", ",", "m", "=", "1", ",", "s", "=">>
    \o to_decimal(size) \o <<",", "v", "=">> \o to_decimal(size)
    \o <<",", "Y", "=">> \o to_decimal(off_y) \o <<";">> \o first_chunk
    \o <<"ESC", "\\">>

\* A render_image that stops after the first chunk.
render_image_FirstChunkOnly(rgba_data, size, cell_height) ==
  LET off_y == IF cell_height > size THEN (cell_height - size) \div 2 ELSE 0
      encoded == base64_encode(rgba_data)
  IN first_sequence(size, off_y, take_chunk(encoded))
       \o <<"ESC", "_", "G", "m", "=", "0", ";", "ESC", "\\">>
       \o <<"ESC", "[", "2", "C">>

render_image(rgba_data, size, cell_height) ==
  LET off_y == IF cell_height > size THEN (cell_height - size) \div 2 ELSE 0
      encoded == base64_encode(rgba_data)
  IN first_sequence(size, off_y, take_chunk(encoded))
       \o more_chunks(after_chunk(encoded))
       \o <<"ESC", "_", "G", "m", "=", "0", ";", "ESC", "\\">>
       \o <<"ESC", "[", "2", "C">>

\* KITTY_IMAGE = \x1b_G.*?\x1b\\ : the positions where "\x1b_G" starts.
image_starts(text) ==
  {i \in 1..(Len(text) - 2) :
     text[i] = "ESC" /\ text[i + 1] = "_" /\ text[i + 2] = "G"}

\* The position of the "\x1b" of the nearest "\x1b\\" after the start i, 0 if
\* there is none or a line feed (which "." does not match) comes first.
image_end(text, i) ==
  LET ends == {j \in (i + 3)..(Len(text) - 1) :
                 text[j] = "ESC" /\ text[j + 1] = "\\"}
  IN IF ends = {} THEN 0
     ELSE LET j == SetMin(ends) IN
       IF \E k \in (i + 3)..(j - 1) : text[k] = "LF" THEN 0 ELSE j

\* Regex::replace_all(text, ""): from position pos on, drop the leftmost
\* match and go on after it.
RECURSIVE replace_all_from(_, _)
replace_all_from(text, pos) ==
  LET matches == {i \in image_starts(text) : i >= pos /\ image_end(text, i) # 0}
  IN IF matches = {} THEN SubSeq(text, pos, Len(text))
     ELSE LET i == SetMin(matches) IN
       SubSeq(text, pos, i - 1) \o replace_all_from(text, image_end(text, i) + 2)

\* A strip that removes the first match only (Regex::replace).
strip_image_FirstOnly(text) ==
  LET matches == {i \in image_starts(text) : image_end(text, i) # 0}
  IN IF matches = {} THEN text
     ELSE LET i == SetMin(matches) IN
       SubSeq(text, 1, i - 1) \o SubSeq(text, image_end(text, i) + 2, Len(text))

strip_image(text) == replace_all_from(text, 1)


(***************************************************************************)
(* Specification SpecKitty: render_image, then strip_image on the text     *)
(* that embeds its output                                                  *)
(***************************************************************************)
\* Largest small buffer, and the number of full chunks the long buffers
\* reach.
MaxSmallBuf == 7
MaxChunks == 2

\* The bytes that fill one chunk of the encoding.
BytesPerChunk == (CHUNK_SIZE \div 4) * 3

\* Buffer lengths: the short ones, and those whose encoding ends just before,
\* exactly at and just after a multiple of CHUNK_SIZE.
BufferLens ==
  (0..MaxSmallBuf)
    \cup UNION {{k * BytesPerChunk - 2, k * BytesPerChunk - 1,
                 k * BytesPerChunk, k * BytesPerChunk + 1} : k \in 1..MaxChunks}

\* The pixel buffer of a length and a seed.
rgba_data(len, seed) == [i \in 1..len |-> (seed + 37 * i) % 256]

PrefixText == <<"p", "r", "e", "f", "i", "x">>
SuffixText == <<"s", "u", "f", "f", "i", "x">>

InitKitty ==
  /\ ki_len \in BufferLens
  /\ ki_seed \in {0, 201}
  /\ ki_size \in {16, 200}
  /\ ki_cell \in {9, 20}
  /\ ki_prefix \in {<<>>, PrefixText}
  /\ ki_suffix \in {<<>>, SuffixText}
  /\ ki_out = <<>>
  /\ ki_stripped = <<>>
  /\ ki_pc = "start"
  /\ IdleBut("kitty")

\* A call render_image(rgba_data, size).
RenderImage ==
  /\ ki_pc = "start"
  /\ ki_out' = render_image(rgba_data(ki_len, ki_seed), ki_size, ki_cell)
  /\ ki_pc' = "rendered"
  /\ UNCHANGED <<ki_len, ki_seed, ki_size, ki_cell, ki_prefix, ki_suffix,
                 ki_stripped, not_kitty>>

\* A call strip_image(prefix + encoded + suffix).
StripImage ==
  /\ ki_pc = "rendered"
  /\ ki_stripped' = strip_image(ki_prefix \o ki_out \o ki_suffix)
  /\ ki_pc' = "stripped"
  /\ UNCHANGED <<ki_len, ki_seed, ki_size, ki_cell, ki_prefix, ki_suffix,
                 ki_out, not_kitty>>

NextKitty == RenderImage \/ StripImage

SpecKitty == InitKitty /\ [][NextKitty]_vars

\* Reading the output back: a graphics sequence starts with "\x1b_G", its
\* parameters run to the first ";", its payload from there to "\x1b\\".
SeqSemi(out, i) == SetMin({j \in i..Len(out) : out[j] = ";"})
SeqEnd(out, i) ==
  SetMin({j \in i..(Len(out) - 1) : out[j] = "ESC" /\ out[j + 1] = "\\"})
SeqParams(out, i) == SubSeq(out, i + 3, SeqSemi(out, i) - 1)
SeqPayload(out, i) == SubSeq(out, SeqSemi(out, i) + 1, SeqEnd(out, i) - 1)

\* The parameters carry m=v as one of their comma-separated items.
HasMoreFlag(params, v) ==
  \E k \in 1..(Len(params) - 2) :
    /\ SubSeq(params, k, k + 2) = <<"m", "=", v>>
    /\ (k = 1 \/ params[k - 1] = ",")
    /\ (k + 2 = Len(params) \/ params[k + 3] = ",")

RECURSIVE ConcatPayloads(_, _)
ConcatPayloads(out, starts) ==
  IF starts = {} THEN <<>>
  ELSE LET i == SetMin(starts) IN
    SeqPayload(out, i) \o ConcatPayloads(out, starts \ {i})

\* C6: the output of render_image is a run of graphics control sequences
\* (followed by the cursor move) whose payloads, in order, spell the base64
\* encoding of the buffer; no payload is longer than 4096; all sequences but
\* the last carry m=1; the last one, and only it, has an empty payload with
\* m=0.
C6_ChunkedPayload ==
  ki_pc # "start" =>
    LET starts == image_starts(ki_out)
        last == SetMax(starts)
    IN /\ 1 \in starts
       /\ \A i \in starts :
            LET next == SeqEnd(ki_out, i) + 2 IN
              IF i = last
                THEN SubSeq(ki_out, next, Len(ki_out)) = <<"ESC", "[", "2", "C">>
                ELSE next \in starts
       /\ ConcatPayloads(ki_out, starts)
            = base64_encode(rgba_data(ki_len, ki_seed))
       /\ \A i \in starts :
            /\ Len(SeqPayload(ki_out, i)) <= CHUNK_SIZE
            /\ i # last => HasMoreFlag(SeqParams(ki_out, i), "1")
            /\ (SeqPayload(ki_out, i) = <<>>
                  /\ HasMoreFlag(SeqParams(ki_out, i), "0")) <=> i = last

\* A buffer whose encoding is exactly two full chunks has been rendered as
\* two data sequences and the terminator.
C6_Witness ==
  /\ ki_pc = "rendered"
  /\ Len(base64_encode(rgba_data(ki_len, ki_seed))) = 2 * CHUNK_SIZE
  /\ Cardinality(image_starts(ki_out)) = 3

MarkupTags == {"<dimmed>", "<bold>", "</>"}

\* fmt::len: the printable width of marked-up text.
len(text) == Cardinality({i \in 1..Len(text) : text[i] \notin MarkupTags})

\* DetailField::name: the column name from table.column_names.
column_name(det) ==
  CASE det = "Typ" -> <<"T">>
    [] det = "Size" -> <<"S", "i", "z", "e">>
    [] det = "Name" -> <<"N", "a", "m", "e">>

\* DetailField::uniformly_wide: columns whose cells all have one width.
uniformly_wide(det) == det \in {"Typ"}

\* Iterator::max over the widths of the scanned rows, chained with the
\* width of the header (0 without a header row).
max_of(widths, header_width) ==
  SetMax({widths[i] : i \in 1..Len(widths)} \cup {header_width})

\* entry.get(det).map(len) under filter_map: rows without the field are
\* skipped.
scanned_widths(rows, det) ==
  LET has == {i \in 1..Len(rows) : det \in DOMAIN rows[i]}
      RECURSIVE collect(_)
      collect(i) ==
        IF i > Len(rows) THEN <<>>
        ELSE IF i \in has THEN <<len(rows[i][det])>> \o collect(i + 1)
        ELSE collect(i + 1)
  IN collect(1)

\* The width of one column; the slice entries[0..end_lim] panics when
\* end_lim is beyond the number of rows.
column_width(entries, details, header, det_idx, end_lim) ==
  IF det_idx = Len(details) THEN Ok(NoneOpt)
  ELSE IF end_lim > Len(entries) THEN Panicked
  ELSE Ok(Some(max_of(scanned_widths(SubSeq(entries, 1, end_lim), details[det_idx]),
                      IF header THEN len(column_name(details[det_idx])) ELSE 0)))

\* A max_widths that scans every row of every column.
max_widths_ScanAll(entries, details, header) ==
  LET cols == [i \in 1..Len(details) |->
                 column_width(entries, details, header, i, Len(entries))]
  IN IF \E i \in 1..Len(details) : ~cols[i].ok THEN Panicked
     ELSE Ok([i \in 1..Len(details) |-> cols[i].v])

\* Table::max_widths: one Option<usize> per requested column.
max_widths(entries, details, header) ==
  LET cols == [i \in 1..Len(details) |->
                 column_width(entries, details, header, i,
                              IF uniformly_wide(details[i]) THEN 1
                              ELSE Len(entries))]
  IN IF \E i \in 1..Len(details) : ~cols[i].ok THEN Panicked
     ELSE Ok([i \in 1..Len(details) |-> cols[i].v])

\* One printed line: per column the text, the width it is padded to and
\* whether the cell keeps its padding (the last column does not).
printed_line(texts, widths) ==
  [i \in 1..Len(texts) |->
     [text |-> texts[i], width |-> widths[i], padded |-> i # Len(texts)]]

\* The lines that Table::render prints for the given widths.
render_lines(entries, details, header, widths) ==
  (IF header
     THEN <<printed_line([i \in 1..Len(details) |-> column_name(details[i])], widths)>>
     ELSE <<>>)
  \o [r \in 1..Len(entries) |->
        printed_line([i \in 1..Len(details) |-> entries[r][details[i]]], widths)]

(***************************************************************************)
(* Specification SpecTable: Table::render on bounded tables                *)
(***************************************************************************)
\* Most requested columns and most rows.
MaxCols == 2
MaxRows == 3

DetailPool == {"Typ", "Size", "Name"}

\* The cells: an empty value, a marked-up character, a five-digit number.
CellPool ==
  {<<>>, <<"<dimmed>", "f", "</>">>, <<"1", "2", "3", "4", "5">>}

InitTable ==
  /\ tb_details \in DistinctSeqs(DetailPool, MaxCols)
  /\ tb_header \in BOOLEAN
  /\ tb_entries \in SeqsUpTo([Range(tb_details) -> CellPool], MaxRows)
  /\ tb_widths = <<>>
  /\ tb_lines = <<>>
  /\ tb_pc = "new"
  /\ IdleBut("table")

\* table.render(&conf, &self.args): measure, then print the header and the
\* rows; a panic in max_widths ends the program.
Render ==
  /\ tb_pc = "new"
  /\ LET r == max_widths(tb_entries, tb_details, tb_header) IN
       IF r.ok
         THEN /\ tb_widths' = r.v
              /\ tb_lines' = render_lines(tb_entries, tb_details, tb_header, r.v)
              /\ tb_pc' = "rendered"
         ELSE /\ tb_widths' = tb_widths
              /\ tb_lines' = tb_lines
              /\ tb_pc' = "panicked"
  /\ UNCHANGED <<tb_entries, tb_details, tb_header, not_table>>

NextTable == Render

SpecTable == InitTable /\ [][NextTable]_vars

HeaderWidth(det) == IF tb_header THEN len(column_name(det)) ELSE 0

\* The table with the cell of row r in column det replaced.
WithCell(r, det, cell) ==
  [tb_entries EXCEPT ![r] = [@ EXCEPT ![det] = cell]]

\* C8: for a uniformly wide column that is not the last one, the computed
\* width is that of the header and row #1, and replacing the value of any
\* later row leaves it unchanged.
C8_UniformWidthFromFirstRow ==
  (tb_pc # "new" /\ Len(tb_entries) >= 1) =>
    /\ tb_pc = "rendered"
    /\ \A c \in 1..(Len(tb_details) - 1) :
         uniformly_wide(tb_details[c]) =>
           /\ tb_widths[c] =
                Some(IF len(tb_entries[1][tb_details[c]]) > HeaderWidth(tb_details[c])
                       THEN len(tb_entries[1][tb_details[c]])
                       ELSE HeaderWidth(tb_details[c]))
           /\ \A r \in 2..Len(tb_entries) : \A cell \in CellPool :
                LET other == max_widths(WithCell(r, tb_details[c], cell),
                                        tb_details, tb_header)
                IN other.ok /\ other.v[c] = tb_widths[c]

\* A uniformly wide first column whose row #2 is wider than row #1 and the
\* header has been measured.
C8_Witness ==
  /\ tb_pc = "rendered"
  /\ Len(tb_details) >= 2 /\ uniformly_wide(tb_details[1])
  /\ Len(tb_entries) >= 2
  /\ len(tb_entries[2][tb_details[1]]) > len(tb_entries[1][tb_details[1]])
  /\ len(tb_entries[2][tb_details[1]]) > HeaderWidth(tb_details[1])
  /\ tb_widths[1] = Some(1)

\* C9: max_widths returns one entry per requested column: None for the last
\* one, and for every other column that is not uniformly wide the largest
\* printable width among the header (when enabled) and all rows, so no cell
\* of the column is wider than the width.
C9_WidthPerColumn ==
  tb_pc # "new" =>
    /\ tb_pc = "rendered"
    /\ Len(tb_widths) = Len(tb_details)
    /\ \A c \in 1..Len(tb_details) :
         LET det == tb_details[c] IN
           /\ c = Len(tb_details) => tb_widths[c] = NoneOpt
           /\ (c # Len(tb_details) /\ ~uniformly_wide(det)) =>
                /\ tb_widths[c] # NoneOpt
                /\ \A r \in 1..Len(tb_entries) : len(tb_entries[r][det]) <= tb_widths[c][1]
                /\ HeaderWidth(det) <= tb_widths[c][1]
                /\ \/ tb_widths[c][1] = HeaderWidth(det)
                   \/ \E r \in 1..Len(tb_entries) :
                        tb_widths[c][1] = len(tb_entries[r][det])

\* C21: rendering a table does not fail for any number of rows and any
\* non-empty list of requested columns: max_widths returns a width for every
\* column, also for a table without rows whose uniformly wide column is not
\* the last one, and the header and one line per row are printed.
C21_RenderNeverFails ==
  (tb_pc # "new" /\ Len(tb_details) >= 1) =>
    /\ tb_pc = "rendered"
    /\ Len(tb_widths) = Len(tb_details)
    /\ Len(tb_lines) = Len(tb_entries) + (IF tb_header THEN 1 ELSE 0)


(***************************************************************************)
(* Pls::get_node, Pls::get_contents and Pls::list                          *)
(***************************************************************************)
\* A path on disk: whether it can be canonicalized, whether its
\* configuration loads, whether it is a directory, whether the directory can
\* be read, and its entries in the order read_dir yields them.  An entry
\* names a node of NodePool; ok is FALSE when read_dir yields an error for
\* it, stat_ok is FALSE when the file is gone by the time it is examined.
\* file_name is the name as the directory holds it, in bytes.
Entry(id, ok, stat_ok) ==
  [id |-> id, ok |-> ok, stat_ok |-> stat_ok,
   file_name |-> NodePool[id].path, typ |-> NodePool[id].typ]

Path(exists, conf_ok, is_dir, read_ok, entries) ==
  [exists |-> exists, conf_ok |-> conf_ok, is_dir |-> is_dir,
   read_ok |-> read_ok, entries |-> entries]

PathPool ==
  << \* 1: a path that does not exist
     Path(FALSE, TRUE, FALSE, FALSE, <<>>),
     \* 2: a directory that cannot be read
     Path(TRUE, TRUE, TRUE, FALSE, <<>>),
     \* 3: a directory whose .pls.yml is invalid
     Path(TRUE, FALSE, TRUE, TRUE, <<Entry(1, TRUE, TRUE)>>),
     \* 4: a directory of three entries, and one that read_dir fails on
     Path(TRUE, TRUE, TRUE, TRUE,
          <<Entry(1, TRUE, TRUE), Entry(5, FALSE, TRUE), Entry(2, TRUE, TRUE),
            Entry(3, TRUE, TRUE)>>),
     \* 5: an empty directory
     Path(TRUE, TRUE, TRUE, TRUE, <<>>),
     \* 6: a directory with an entry that vanishes before it is examined
     Path(TRUE, TRUE, TRUE, TRUE,
          <<Entry(1, TRUE, TRUE), Entry(5, TRUE, FALSE)>>),
     \* 7: a single file
     Path(TRUE, TRUE, FALSE, FALSE, <<Entry(2, TRUE, TRUE)>>) >>

\* Regex::is_match: a pattern is the set of names it matches.
is_match(pat, haystack) == haystack \in pat

\* The importance of a node: the largest of its matched specs, 0 without.
\* The default specs match none of the pool's names but ".Env" as "^\.env\b"
\* would on its lower-case form; no node of the pool has an importance.
node_importance(id) == 0

\* Imp::is_visible: the importance is not below the requested one.
is_visible(id, args) == node_importance(id) >= args.imp

\* Node::new: path.symlink_metadata().unwrap() panics when the file is gone.
\* Pls::get_node: <<"Node", id>>, <<"None">> when filtered out, <<"Panic">>.
get_node(entry, args) ==
  LET haystack == entry.file_name
      include == IF args.only = NoneOpt THEN TRUE
                 ELSE is_match(args.only[1], haystack)
      exclude == IF args.exclude = NoneOpt THEN FALSE
                 ELSE is_match(args.exclude[1], haystack)
  IN IF ~include THEN <<"None">>
     ELSE IF exclude THEN <<"None">>
     ELSE IF ~entry.stat_ok THEN <<"Panic">>
     ELSE IF entry.typ \notin args.typs THEN <<"None">>
     ELSE IF ~is_visible(entry.id, args) THEN <<"None">>
     ELSE <<"Node", entry.id>>

\* OsStr::to_string_lossy, as Node::new makes the name of a node: the bytes
\* of valid UTF-8 stay, a byte that no UTF-8 sequence holds (0xF5..0xFF)
\* becomes U+FFFD, the bytes EF BF BD.  The names here hold ASCII bytes and
\* such bytes only.
RECURSIVE to_string_lossy(_)
to_string_lossy(bytes) ==
  IF bytes = <<>> THEN <<>>
  ELSE (IF Head(bytes) >= 245 THEN <<239, 191, 189>> ELSE <<Head(bytes)>>)
       \o to_string_lossy(Tail(bytes))

\* Name::passes_filters on a node of the given name.
passes_filters(name, args) ==
  /\ IF args.only = NoneOpt THEN TRUE ELSE is_match(args.only[1], name)
  /\ IF args.exclude = NoneOpt THEN TRUE ELSE ~is_match(args.exclude[1], name)

\* The filter_map of get_contents over the entries, in order.
RECURSIVE collect_nodes(_, _, _)
collect_nodes(entries, args, nodes) ==
  IF entries = <<>> THEN Ok(nodes)
  ELSE LET entry == Head(entries) IN
    IF ~entry.ok THEN collect_nodes(Tail(entries), args, nodes)
    ELSE LET r == get_node(entry, args) IN
      IF r[1] = "Panic" THEN Panicked
      ELSE IF r[1] = "None" THEN collect_nodes(Tail(entries), args, nodes)
      ELSE collect_nodes(Tail(entries), args, Append(nodes, r[2]))

\* An Err(Exc) result.
Failed == [ok |-> FALSE, v |-> <<>>, err |-> "IoError"]

is_err(result) == "err" \in DOMAIN result

\* Pls::get_contents: Ok(node ids), Failed (read_dir failed) or Panicked.
\* get_contents putting a single file through get_node like an entry.
get_contents_FilterSingle(path, args) ==
  IF ~path.is_dir \/ path.read_ok
    THEN collect_nodes(path.entries, args, <<>>)
    ELSE Failed

get_contents(path, args) ==
  IF path.is_dir
    THEN IF ~path.read_ok THEN Failed
         ELSE collect_nodes(path.entries, args, <<>>)
    ELSE IF ~path.entries[1].stat_ok THEN Panicked
         ELSE Ok(<<path.entries[1].id>>)

\* The sort passes of list, last field first.
RECURSIVE sort_passes(_, _, _, _)
RECURSIVE sort_passes_on(_, _, _, _)
sort_passes_on(sorted, sort_bases, pass, algo) ==
  IF sorted.ok THEN sort_passes(sorted.v, sort_bases, pass - 1, algo)
  ELSE Panicked

sort_passes(nodes, sort_bases, pass, algo) ==
  IF pass = 0 THEN Ok(nodes)
  ELSE sort_passes_on(sort_by(nodes, sort_bases[pass], algo), sort_bases, pass, algo)

\* if nodes.len() > 1 { ... }: fewer than two nodes are not sorted.
sort_nodes(nodes, args, algo) ==
  IF Len(nodes) > 1
    THEN sort_passes(nodes, args.sort_bases, Len(args.sort_bases), algo)
    ELSE Ok(nodes)

\* Node::entries: the rows of a node and, after it, of its children.
RECURSIVE flatten(_)
flatten(forest) ==
  IF forest = <<>> THEN <<>>
  ELSE <<Head(forest).id>> \o flatten(Head(forest).children)
         \o flatten(Tail(forest))

\* Typ::ch: the character of the 'T' column.
typ_ch(typ) ==
  CASE typ = "Dir" -> <<"d">>
    [] typ = "Symlink" -> <<"l">>
    [] typ = "File" -> <<"<dimmed>", "f", "</>">>
    [] OTHER -> <<"<red>", "?", "</>">>

\* Node::get_value: the cell of a detail field; a name prints as many
\* characters as it has bytes, a size as its decimal digits.
get_value(id, detail) ==
  CASE detail = "Typ" -> typ_ch(NodePool[id].typ)
    [] detail = "Size" -> <<"<bold>">> \o to_decimal(meta_ok(NodePool[id])[1].size)
                            \o <<"</>">>
    [] detail = "Name" -> <<"<bold>">> \o [i \in 1..Len(NodePool[id].name) |-> "x"]
                            \o <<"</>">>

\* Node::row: the requested detail fields and their values.
row(id, details) == [det \in Range(details) |-> get_value(id, det)]

\* The entries of the printer: one row per node of the flattened forest.
entries_of(ids, args) ==
  [i \in 1..Len(ids) |-> row(ids[i], args.details)]

\* if self.args.collapse { nodes = self.resolve_collapses(nodes) }.  The
\* collapse rules are those of the configuration; the pool's names carry
\* none.
forest_of(nodes, args) ==
  IF args.collapse
    THEN resolve_collapses(nodes, [id \in NodeIds |-> NoneOpt])
    ELSE nodes

\* The end of list: the grid or the table is rendered.
list_render(entries, args) ==
  IF args.grid THEN <<"Ok", Len(entries)>>
  ELSE IF max_widths(entries, args.details, args.header).ok
    THEN <<"Ok", Len(entries)>>
    ELSE <<"Panic">>

\* list from the sorted nodes on.
list_sorted(sorted, args) ==
  IF ~sorted.ok THEN <<"Panic">>
  ELSE list_render(
         entries_of(flatten(forest_of([i \in 1..Len(sorted.v) |-> new_node(sorted.v[i])],
                                      args)),
                    args),
         args)

\* list from the result of get_contents on.
list_contents(contents, args, algo) ==
  IF is_err(contents) THEN <<"Err">>
  ELSE IF ~contents.ok THEN <<"Panic">>
  ELSE list_sorted(sort_nodes(contents.v, args, algo), args)

\* Pls::list: "Ok" with the number of rows printed, "Err" or "Panic".
list(path, args, algo) ==
  IF ~path.exists \/ ~path.conf_ok THEN <<"Err">>
  ELSE list_contents(get_contents(path, args), args, algo)

(***************************************************************************)
(* Specification SpecContents: get_contents on bounded directories         *)
(***************************************************************************)
\* Most entries in a directory.
MaxEntries == 2

\* The entries of the directories: "b.txt", ".Env", an entry that read_dir
\* fails on, an entry that vanishes before Node::new examines it, and the
\* entry whose name is the byte 0xFF.
EntryPool ==
  <<Entry(1, TRUE, TRUE), Entry(3, TRUE, TRUE), Entry(2, FALSE, TRUE),
    Entry(5, TRUE, FALSE), Entry(6, TRUE, TRUE)>>

\* The patterns of --only and --exclude, each as the set of the byte strings
\* it matches: "\.txt$", "^\.", "\x{FFFD}" and "(?-u)\xFF".
PatternPool ==
  {{<<98, 46, 116, 120, 116>>, <<97, 46, 116, 120, 116>>},
   {<<46, 69, 110, 118>>},
   {<<239, 191, 189>>},
   {<<255>>}}

PatternOpts == {NoneOpt} \cup {Some(pat) : pat \in PatternPool}

\* The filters of the arguments.
FilterArgs ==
  [only : PatternOpts, exclude : PatternOpts,
   typs : {Range(TypOrder), {"Dir"}}, imp : {0, 1}]

\* Directories of distinct entries, a directory that cannot be read, and the
\* single files.
ContentsPaths ==
  {Path(TRUE, TRUE, TRUE, TRUE, [i \in 1..Len(idx) |-> EntryPool[idx[i]]]) :
     idx \in {q \in SeqsUpTo(1..Len(EntryPool), MaxEntries) :
                \A i, j \in 1..Len(q) : i # j => q[i] # q[j]}}
  \cup {Path(TRUE, TRUE, TRUE, FALSE, <<>>)}
  \cup {Path(TRUE, TRUE, FALSE, FALSE, <<EntryPool[i]>>) :
          i \in {k \in 1..Len(EntryPool) : EntryPool[k].ok}}

InitContents ==
  /\ gc_path \in ContentsPaths
  /\ gc_args \in FilterArgs
  /\ gc_out = <<>>
  /\ gc_passed = <<>>
  /\ gc_pc = "new"
  /\ IdleBut("contents")

\* let mut nodes = self.get_contents(&path_buf, &conf)?
GetContents ==
  /\ gc_pc = "new"
  /\ gc_out' = get_contents(gc_path, gc_args)
  /\ gc_pc' = "listed"
  /\ UNCHANGED <<gc_path, gc_args, gc_passed, not_contents>>

\* passes_filters on the node that Node::new makes of each entry.
PassesFilters ==
  /\ gc_pc = "listed"
  /\ gc_passed' =
       [i \in 1..Len(gc_path.entries) |->
          passes_filters(to_string_lossy(gc_path.entries[i].file_name), gc_args)]
  /\ gc_pc' = "checked"
  /\ UNCHANGED <<gc_path, gc_args, gc_out, not_contents>>

NextContents == GetContents \/ PassesFilters

SpecContents == InitContents /\ [][NextContents]_vars

\* The ids of the entries, in order.
EntryIds(entries) == [i \in 1..Len(entries) |-> entries[i].id]

\* The entry can be read, its metadata obtained, and the filters keep it.
Listable(entry) ==
  /\ entry.ok
  /\ entry.stat_ok
  /\ get_node(entry, gc_args)[1] = "Node"

\* C11: the listing of a readable directory does not abort: it returns the
\* entries that can be read, whose metadata can be obtained and that the
\* filters keep, in order; the other entries are skipped.
C11_UnreadableEntriesSkipped ==
  (gc_pc # "new" /\ gc_path.is_dir /\ gc_path.read_ok) =>
    /\ gc_out.ok
    /\ gc_out.v = EntryIds(SelectSeq(gc_path.entries, Listable))

\* The name filter lets the name through: it matches --only or --only is
\* unset, and it does not match --exclude or --exclude is unset.
NameFilterPasses(file_name) ==
  /\ gc_args.only = NoneOpt \/ file_name \in gc_args.only[1]
  /\ gc_args.exclude = NoneOpt \/ file_name \notin gc_args.exclude[1]

\* The entry reaches the end of get_node if its name passes.
PastOtherFilters(entry) ==
  /\ entry.ok
  /\ entry.stat_ok
  /\ entry.typ \in gc_args.typs
  /\ is_visible(entry.id, gc_args)

\* C12: an entry that the other filters keep is in the listing exactly if
\* its name matches --only (or it is unset) and does not match --exclude (or
\* it is unset), and exactly if passes_filters holds of its node.
C12_FiltersAgree ==
  (gc_pc = "checked" /\ gc_path.is_dir /\ gc_out.ok) =>
    \A i \in 1..Len(gc_path.entries) :
      LET entry == gc_path.entries[i] IN
        PastOtherFilters(entry) =>
          /\ entry.id \in Range(gc_out.v) <=> NameFilterPasses(entry.file_name)
          /\ entry.id \in Range(gc_out.v) <=> gc_passed[i]

\* C14: for a path that is a file, get_contents returns exactly the node of
\* that path, whatever the filters are.
C14_SingleFileAlwaysListed ==
  (gc_pc # "new" /\ ~gc_path.is_dir /\ gc_path.entries[1].stat_ok) =>
    gc_out = Ok(<<gc_path.entries[1].id>>)

\* A single file is returned although --exclude matches its name, --types
\* leaves its type out and the requested importance hides it.
C14_Witness ==
  /\ gc_pc = "listed"
  /\ ~gc_path.is_dir
  /\ gc_args.exclude # NoneOpt
  /\ gc_path.entries[1].file_name \in gc_args.exclude[1]
  /\ gc_path.entries[1].typ \notin gc_args.typs
  /\ ~is_visible(gc_path.entries[1].id, gc_args)
  /\ gc_out = Ok(<<gc_path.entries[1].id>>)

(***************************************************************************)
(* Node::match_specs and Node::icon                                        *)
(***************************************************************************)
\* struct Spec, as far as the icon goes: the pattern (the set of the names
\* it matches) and the optional icon name.
Spec(pattern, icon) == [pattern |-> pattern, icon |-> icon]

\* Node::match_specs: the specs whose pattern matches the name, in the
\* order of the configuration.
match_specs(name, all_specs) ==
  LET matches(spec) == is_match(spec.pattern, name)
  IN SelectSeq(all_specs, matches)

\* The loop of Node::icon over self.specs.iter().rev(): the icon name of
\* the last spec that has one.
RECURSIVE spec_icon_name(_)
spec_icon_name(specs) ==
  IF specs = <<>> THEN NoneOpt
  ELSE IF specs[Len(specs)].icon # NoneOpt THEN specs[Len(specs)].icon
  ELSE spec_icon_name(SubSeq(specs, 1, Len(specs) - 1))

\* The same loop without rev(): the icon name of the first spec that has
\* one.
RECURSIVE spec_icon_name_Forward(_)
spec_icon_name_Forward(specs) ==
  IF specs = <<>> THEN NoneOpt
  ELSE IF Head(specs).icon # NoneOpt THEN Head(specs).icon
  ELSE spec_icon_name_Forward(Tail(specs))

\* conf.icons.get(name).cloned().unwrap_or_default()
glyph(icons, name) == IF name \in DOMAIN icons THEN icons[name] ELSE ""

\* The end of Node::icon: the glyph of the icon name, nothing without one.
icon_of(icon_name, icons) ==
  IF icon_name # NoneOpt THEN glyph(icons, icon_name[1]) ELSE ""

\* The fallback of Node::icon on self.typ.icon(conf).
or_typ_icon(icon_name, typ_icon) ==
  IF icon_name = NoneOpt THEN typ_icon ELSE icon_name

\* Node::icon scanning the specs without rev().
icon_Forward(specs, typ, typ_icons, icons) ==
  icon_of(or_typ_icon(spec_icon_name_Forward(specs), typ_icons[typ]), icons)

\* Node::icon
icon(specs, typ, typ_icons, icons) ==
  icon_of(or_typ_icon(spec_icon_name(specs), typ_icons[typ]), icons)

(***************************************************************************)
(* Specification SpecIcon: match_specs and icon on bounded configurations  *)
(***************************************************************************)
\* Most specs in the configuration.
MaxSpecs == 3

\* Specs like those of Conf::default and of a user's .pls.yml: "\.(txt|rtf)$"
\* with the icon "text", "^a" with "book", "^a\.txt$" without an icon,
\* "^\.Env" with "env", "\.txt$" with an icon name that conf.icons lacks,
\* and "\.RS$" with "rust".
SpecPool ==
  <<Spec({<<98, 46, 116, 120, 116>>, <<97, 46, 116, 120, 116>>}, Some("text")),
    Spec({<<97, 46, 116, 120, 116>>, <<97, 46, 82, 83>>}, Some("book")),
    Spec({<<97, 46, 116, 120, 116>>}, NoneOpt),
    Spec({<<46, 69, 110, 118>>}, Some("env")),
    Spec({<<98, 46, 116, 120, 116>>, <<97, 46, 116, 120, 116>>}, Some("mystery")),
    Spec({<<95, 99, 46, 82, 83>>, <<97, 46, 82, 83>>}, Some("rust"))>>

\* conf.icons: the glyph of each icon name, here a letter for the glyph.
IconTable ==
  [file |-> "F", dir |-> "D", symlink |-> "L", text |-> "T", book |-> "B",
   env |-> "E", rust |-> "R"]

\* Constants::typ: the fallback icon name of each type, as in
\* Constants::default and with a fallback for files added.
TypIconTables ==
  {[t \in Range(TypOrder) |->
      CASE t = "Dir" -> Some("dir")
        [] t = "Symlink" -> Some("symlink")
        [] t = "File" -> file_icon
        [] OTHER -> NoneOpt] : file_icon \in {NoneOpt, Some("file")}}

InitIcon ==
  /\ \E idx \in SeqsUpTo(1..Len(SpecPool), MaxSpecs) :
       ic_specs = [i \in 1..Len(idx) |-> SpecPool[idx[i]]]
  /\ ic_icons = IconTable
  /\ ic_typ_icons \in TypIconTables
  /\ ic_node \in NodeIds
  /\ ic_matched = <<>>
  /\ ic_icon = ""
  /\ ic_pc = "new"
  /\ IdleBut("icon")

\* node.match_specs(&conf.specs)
MatchSpecs ==
  /\ ic_pc = "new"
  /\ ic_matched' = match_specs(NodePool[ic_node].name, ic_specs)
  /\ ic_pc' = "matched"
  /\ UNCHANGED <<ic_specs, ic_icons, ic_typ_icons, ic_node, ic_icon, not_icon>>

\* self.icon(conf)
Icon ==
  /\ ic_pc = "matched"
  /\ ic_icon' = icon(ic_matched, NodePool[ic_node].typ, ic_typ_icons, ic_icons)
  /\ ic_pc' = "done"
  /\ UNCHANGED <<ic_specs, ic_icons, ic_typ_icons, ic_node, ic_matched, not_icon>>

NextIcon == MatchSpecs \/ Icon

SpecIcon == InitIcon /\ [][NextIcon]_vars

\* The positions in the configuration of the specs that match the node and
\* have an icon.
IconSpecs ==
  {i \in 1..Len(ic_specs) :
     /\ NodePool[ic_node].name \in ic_specs[i].pattern
     /\ ic_specs[i].icon # NoneOpt}

\* What conf.icons holds under the name, nothing if it holds none.
GlyphOf(name) == IF name \in DOMAIN ic_icons THEN ic_icons[name] ELSE ""

\* C13: the icon is that of the last spec of the configuration that matches
\* the node and has an icon; without such a spec it is the default icon of
\* the node's type; without that, there is no icon.
C13_MostSpecificIconWins ==
  ic_pc = "done" =>
    LET typ_icon == ic_typ_icons[NodePool[ic_node].typ] IN
      ic_icon =
        IF IconSpecs # {} THEN GlyphOf(ic_specs[SetMax(IconSpecs)].icon[1])
        ELSE IF typ_icon # NoneOpt THEN GlyphOf(typ_icon[1])
        ELSE ""

\* Two matched specs with different icons and a matched spec without one
\* after them, on a node whose type has a default icon: the icon is that of
\* the later of the two.
C13_Witness ==
  /\ ic_pc = "done"
  /\ Cardinality(IconSpecs) >= 2
  /\ Len(ic_matched) = 3
  /\ ic_matched[3].icon = NoneOpt
  /\ ic_matched[1].icon # ic_matched[2].icon
  /\ ic_typ_icons[NodePool[ic_node].typ] # NoneOpt
  /\ ic_icon = GlyphOf(ic_matched[2].icon[1])
  /\ ic_icon # ""

(***************************************************************************)
(* Specification SpecRun: the loop of Pls::run over args.paths             *)
(***************************************************************************)
\* Most paths on the command line.
MaxPaths == 3

AllTyps == Range(TypOrder)

Args(paths, sort_bases, details, grid, collapse) ==
  [paths |-> paths, sort_bases |-> sort_bases, details |-> details, grid |-> grid,
   header |-> TRUE, collapse |-> collapse, only |-> NoneOpt,
   exclude |-> NoneOpt, typs |-> AllTyps, imp |-> 0]

\* The argument sets: a plain name listing as a grid, a table of type and
\* name, and a table of sizes sorted by size.
ArgsPool(paths) ==
  {Args(paths, <<"Name">>, <<"Name">>, TRUE, FALSE),
   Args(paths, <<"Cname">>, <<"Typ", "Name">>, FALSE, TRUE),
   Args(paths, <<"Size_", "Name">>, <<"Size", "Name">>, FALSE, FALSE)}

InitRun ==
  /\ \E paths \in SeqsUpTo(1..Len(PathPool), MaxPaths) :
       rn_args \in ArgsPool(paths)
  /\ rn_idx = 0
  /\ rn_out = <<>>
  /\ rn_pc = "running"
  /\ IdleBut("run")

\* What run prints before it lists the path at index idx (from 0): a blank
\* line from the second path on, the path as a title if there are several.
heading(paths, idx) ==
  (IF idx >= 1 THEN <<[kind |-> "blank", path |-> paths[idx + 1]]>> ELSE <<>>)
  \o (IF Len(paths) > 1 THEN <<[kind |-> "title", path |-> paths[idx + 1]]>>
      ELSE <<>>)

\* What the listing leaves on standard output: its rows, the line of the
\* error that list returned, or nothing when it panicked.
outcome_line(outcome, path) ==
  CASE outcome = "Ok" -> <<[kind |-> "listing", path |-> path]>>
    [] outcome = "Err" -> <<[kind |-> "error", path |-> path]>>
    [] outcome = "Panic" -> <<>>

\* One iteration of the for loop of run: the separating blank line, the
\* title when several paths are listed, then the listing or its error line.
\* A panic inside list ends the process.
ListPath ==
  /\ rn_pc = "running"
  /\ rn_idx < Len(rn_args.paths)
  /\ \E algo \in SortAlgos :
       \E outcome \in {list(PathPool[rn_args.paths[rn_idx + 1]], rn_args, algo)[1]} :
         /\ rn_out' = rn_out \o heading(rn_args.paths, rn_idx)
                        \o outcome_line(outcome, rn_args.paths[rn_idx + 1])
         /\ rn_idx' = IF outcome = "Panic" THEN rn_idx ELSE rn_idx + 1
         /\ rn_pc' = IF outcome = "Panic" THEN "panicked" ELSE rn_pc
  /\ UNCHANGED <<rn_args, not_run>>

\* The loop is over and run returns.
RunReturns ==
  /\ rn_pc = "running"
  /\ rn_idx = Len(rn_args.paths)
  /\ rn_pc' = "done"
  /\ UNCHANGED <<rn_args, rn_idx, rn_out, not_run>>

NextRun == ListPath \/ RunReturns

SpecRun == InitRun /\ [][NextRun]_vars

\* The listings and error lines written so far, in order.
Attempts == SelectSeq(rn_out, LAMBDA l : l.kind \in {"listing", "error"})

\* C10: run never stops early: the paths are attempted in the order given,
\* each once, and when run is over every path has got its listing or its one
\* error line, the error line exactly for the paths whose listing fails.
C10_EveryPathAttemptedInOrder ==
  /\ rn_pc # "panicked"
  /\ Len(Attempts) = rn_idx
  /\ \A i \in 1..Len(Attempts) : Attempts[i].path = rn_args.paths[i]
  /\ rn_pc = "done" =>
       /\ Len(Attempts) = Len(rn_args.paths)
       /\ \A i \in 1..Len(Attempts) :
            Attempts[i].kind = "error"
              <=> list(PathPool[rn_args.paths[i]], rn_args, "insert_tail")[1] # "Ok"

====
